---------------------------- MODULE Spec2Model ----------------------------
(***************************************************************************)
(* Transactional outbox of the users service.                              *)
(*                                                                         *)
(* pkg/store/userstore keeps one document per user: the payload (data) and *)
(* an inline queue of outbox entries (events).  pkg/user runs the pump     *)
(* (PublishChanges / publishChange) that drains the entries to the bus.    *)
(*                                                                         *)
(* Every MongoDB call of the store is one atomic single-document           *)
(* operation and is one step of the model.  Store.UpdateOne makes two      *)
(* calls (ReadOne, then a conditional UpdateOne) and is two steps.         *)
(***************************************************************************)
EXTENDS Integers, Sequences, FiniteSets, TLC

(***************************************************************************)
(* Bounds of the model.                                                    *)
(***************************************************************************)
\* retry interval, in clock ticks (parameter retryTimeout of Store.Events)
retryTimeout == 1
\* number of store calls (Create, UpdateOne, DeleteOne) started in one run
MaxOps == 3
\* number of store calls started in one run of the service with its pumps
PumpOps == 2
\* number of publish tasks in flight at one time
MaxTasks == 2
\* number of store calls started in one run of creates and deletes
KeyOps == 4
\* the outcomes followed in one window of the monitor
MaxEvents == 10
\* number of store calls after which no request of the service is started
ServiceOps == 3
\* number of store calls started in one run of creates, deletes and finds
FindOps == 4
\* number of outcomes recorded in one run of the goroutines of the monitor
MaxRecords == 4

\* Timestamps are kept relative to the present: utctime.Now() reads MaxTime,
\* and a stored timestamp MaxTime - k is the time k ticks ago (0: MaxTime
\* ticks ago or more).  The horizon is one tick more than a lease lasts, so
\* that every comparison the code makes with a lease has both outcomes.
MaxTime == retryTimeout + 1
now == MaxTime

\* math.MaxInt64, the version carried by a Deleted entry; the largest
\* version any entry carries
MaxInt64 == 2147483647
\* DefaultVersion of pkg/user, the version of a new record
DefaultVersion == 1

IDs == {"u1", "u2"}
Emails == {"a@x", "b@x"}
Nicknames == {"na", "nb"}
Clients == {"c1", "c2"}
\* subscribers of Store.Events, one pump (PublishChanges) each
Subs == {"p1", "p2"}

Pending == "Pending"
Processing == "Processing"
Created == "Created"
Updated == "Updated"
Deleted == "Deleted"

ErrAlreadyExists == "AlreadyExists"
ErrNotFound == "NotFound"
ErrInvalidVersion == "InvalidVersion"
ErrNoDocuments == "NoDocuments"
Ok == "ok"

VARIABLES
    collection,  \* the users collection: id -> Record, for the ids inserted
    call,        \* per client: the store call it makes or made last
    nOps,        \* store calls started so far (outcomes recorded, in
                 \* the runs of the goroutines of the monitor)
    evPc,        \* per subscriber: position of the goroutine of Store.Events
    evResult,    \* per subscriber: the EventResult it is about to yield
    cancelled,   \* per subscriber: its root context is cancelled
    tasks,       \* the goroutines started by publishChange
    appended,    \* history: per id, the entries appended, in order
    sent,        \* history: <<id, version>> of entries handed to bus.Send
    monitor,     \* Service.eventCount and Service.successRate
    recorded,    \* history: the outcomes recorded since the last reset,
                 \* and the rate the last reset returned
    request,     \* per client: the request it makes of the service, or
                 \* made last
    health,      \* the request the health endpoint handles: its context,
                 \* its goroutines and the results it collected
    eventMtx,    \* Service.eventMtx: the goroutine that holds it, if any
    sections,    \* per goroutine using the monitor: its position in
                 \* recordEventResult or CheckEventSuccessRateAndReset
    helpers,     \* the call of Store.FindMany followed goroutine by
                 \* goroutine: its context, its helpers and its results
    publishing   \* per subscriber: PublishChanges has not returned

vars == <<collection, call, nOps, evPc, evResult, cancelled, tasks,
          appended, sent, monitor, recorded, request, health, eventMtx,
          sections, helpers, publishing>>

storeVars == <<collection, appended>>
pumpVars == <<evPc, evResult, tasks, sent>>
monitorVars == <<monitor, recorded>>
routineVars == <<health, eventMtx, sections, helpers, publishing>>

(***************************************************************************)
(* Values.  A pointer to a User that may be nil is a sequence of length 0  *)
(* or 1.                                                                   *)
(***************************************************************************)
Nil == <<>>
Some(x) == <<x>>

\* type User
User(id, firstName, lastName, nickname, passwordHash, email, country, createdAt, updatedAt, version) ==
    [id |-> id, firstName |-> firstName, lastName |-> lastName,
     nickname |-> nickname, passwordHash |-> passwordHash, email |-> email,
     country |-> country, createdAt |-> createdAt, updatedAt |-> updatedAt,
     version |-> version]

\* A time.Time of a payload as the collection keeps it: a BSON date counts
\* milliseconds, the rest is cut off.  A payload timestamp of the model
\* counts half milliseconds.
bsonTime(t) == t - (t % 2)

\* the payload as it is encoded into the document and decoded from it
bsonUser(user) ==
    [user EXCEPT !.createdAt = bsonTime(@), !.updatedAt = bsonTime(@)]

\* an entry without the record
eventForNoData(action, id, version, user) ==
    [id |-> id, state |-> Pending, action |-> action, version |-> version,
     updatedAt |-> now, data |-> Nil]

\* eventFor: a Pending entry stamped with the current time.  (CreatedAt,
\* which gets the same stamp, is never written again and is read only to
\* format the published event; the model leaves it out.)
eventFor(action, id, version, user) ==
    [id |-> id, state |-> Pending, action |-> action, version |-> version,
     updatedAt |-> now, data |-> user]

\* the documents of the collection
Stored == DOMAIN collection
\* a document whose data is an embedded document (not null)
Live(id) == id \in Stored /\ collection[id].data # Nil
HasHead(id) == id \in Stored /\ collection[id].events # <<>>
\* the entry pushed last, in the place of events.0
NewestOf(id) == collection[id].events[Len(collection[id].events)]
HeadOf(id) == Head(collection[id].events)
\* an entry is named by its document and its version
Key(e) == <<e.id, e.version>>


(***************************************************************************)
(* Inputs of the store calls.  The timestamps of a payload are the         *)
(* caller's, read from a clock finer than a millisecond.                   *)
(***************************************************************************)
\* the records handed to Store.Create: a new record as the service and the
\* tests compose it (DefaultVersion, both timestamps the time of creation)
NewUsers ==
    {User(id, "f1", "l1", nickname, "h1", email, "DE", 3, 3, DefaultVersion) :
        id \in IDs, nickname \in Nicknames, email \in Emails}

\* the records handed to Store.UpdateOne: any id and version; the caller
\* carries its own email, nickname and created-at
Updates ==
    {User(id, "f2", "l2", "nz", "h2", "a@x", "NL", 0, 5, version) :
        id \in IDs, version \in DefaultVersion .. MaxOps}

\* a client's call: the operation, its position, the error returned, the
\* id it was given (of DeleteOne and ProcessEvent the model does not keep
\* it) and, of UpdateOne, the version it was given and the record it read
\* and changed
Idle == [op |-> "none", pc |-> "idle", id |-> "none", version |-> 0,
         rec |-> Nil, res |-> "none"]

Returned(op, id, version, rec, res) ==
    [op |-> op, pc |-> "done", id |-> id, version |-> version, rec |-> rec,
     res |-> res]

CanStart(c) == call[c].pc \in {"idle", "done"}

\* a client's request of the service: the operation, its position ("read"
\* and "store": the service is at a call of the store), the input, the
\* store record composed, whether the hasher was invoked, the error
\* returned and the user returned
NoRequest == [op |-> "none", pc |-> "idle", input |-> Nil, rec |-> Nil,
              hashed |-> FALSE, res |-> "none", user |-> Nil]

(***************************************************************************)
(* Store: Create, ReadOne, UpdateOne, DeleteOne.                           *)
(***************************************************************************)
\* the _id index alone, without the indexes of EnsureIndexes
IsDuplicateKeyErrorIdOnly(user) == user.id \in Stored

\* the unique indexes of EnsureIndexes (and the _id index): would
\* inserting a document with this payload violate one?  The indexes on
\* data.email and data.nickname cover only documents whose data is an
\* embedded document.
IsDuplicateKeyError(user) ==
    \/ user.id \in Stored
    \/ \E j \in Stored :
          /\ collection[j].data # Nil
          /\ \/ collection[j].data[1].email = user.email
             \/ collection[j].data[1].nickname = user.nickname

\* Store.Create: one InsertOne of the payload with its Created entry
Create(c, user) ==
    /\ CanStart(c)
    /\ nOps' = nOps + 1
    /\ IF IsDuplicateKeyError(user)
       THEN /\ call' = [call EXCEPT ![c] =
                  Returned("Create", user.id, 0, Nil, ErrAlreadyExists)]
            /\ UNCHANGED storeVars
       ELSE /\ collection' = collection @@ (user.id :>
                  [data |-> Some(bsonUser(user)),
                   events |-> <<eventFor(Created, user.id, user.version,
                                         Some(bsonUser(user)))>>])
            /\ appended' = [appended EXCEPT ![user.id] =
                  Append(@, [action |-> Created, version |-> user.version])]
            /\ call' = [call EXCEPT ![c] =
                  Returned("Create", user.id, 0, Nil, Ok)]
    /\ UNCHANGED <<routineVars, request, cancelled, monitorVars, pumpVars>>

\* the filter with _id alone
MatchesReadOneIdOnly(id) == id \in Stored

\* the filter of Store.ReadOne: _id and data.id both equal id.  A deleted
\* document has no data.id.
MatchesReadOne(id) ==
    /\ id \in Stored
    /\ collection[id].data # Nil
    /\ collection[id].data[1].id = id

\* Store.ReadOne
ReadOne(id) ==
    IF MatchesReadOne(id)
    THEN [err |-> Ok, user |-> collection[id].data]
    ELSE [err |-> ErrNotFound, user |-> Nil]

\* a caller's Store.ReadOne: the record and the error it is given
ReadOneCall(c, id) ==
    /\ CanStart(c)
    /\ nOps' = nOps + 1
    /\ LET read == ReadOne(id) IN
       call' = [call EXCEPT ![c] =
          Returned("ReadOne", id, 0, read.user, read.err)]
    /\ UNCHANGED <<routineVars, request, storeVars, cancelled, monitorVars, pumpVars>>

\* the record written takes the version of the update, not incremented
UpdatedRecordSameVersion(rec, update) ==
    [rec EXCEPT !.firstName = update.firstName,
                !.lastName = update.lastName,
                !.passwordHash = update.passwordHash,
                !.country = update.country,
                !.createdAt = update.createdAt,
                !.updatedAt = update.updatedAt,
                !.version = update.version]

\* the record Store.UpdateOne writes: the record read, with these fields
\* of the update and the version incremented
UpdatedRecord(rec, update) ==
    [rec EXCEPT !.firstName = update.firstName,
                !.lastName = update.lastName,
                !.passwordHash = update.passwordHash,
                !.country = update.country,
                !.createdAt = update.createdAt,
                !.updatedAt = update.updatedAt,
                !.version = rec.version + 1]

\* Store.UpdateOne, first call: ReadOne and the version check
UpdateOneRead(c, update) ==
    /\ CanStart(c)
    /\ nOps' = nOps + 1
    /\ LET read == ReadOne(update.id) IN
       call' = [call EXCEPT ![c] =
          IF read.err # Ok
          THEN Returned("UpdateOne", update.id, update.version, Nil,
                        ErrNotFound)
          ELSE IF read.user[1].version # update.version
          THEN Returned("UpdateOne", update.id, update.version, Nil,
                        ErrInvalidVersion)
          ELSE [op |-> "UpdateOne", pc |-> "write", id |-> update.id,
                version |-> update.version,
                rec |-> Some(UpdatedRecord(read.user[1], update)),
                res |-> "none"]]
    /\ UNCHANGED <<routineVars, request, storeVars, cancelled, monitorVars, pumpVars>>

\* the filter of the write with _id alone
MatchesUpdateOneIdOnly(id, version) == id \in Stored

\* the filter of the write without the version
MatchesUpdateOneAnyVersion(id, version) == MatchesReadOne(id)

\* the filter of the write of Store.UpdateOne: _id, data.id and the
\* version the caller presented
MatchesUpdateOne(id, version) ==
    /\ MatchesReadOne(id)
    /\ collection[id].data[1].version = version

\* Store.UpdateOne, second call: replace the payload and push the Updated
\* entry in one UpdateOne; ModifiedCount is 1 iff the filter matched
UpdateOneWrite(c) ==
    /\ call[c].op = "UpdateOne"
    /\ call[c].pc = "write"
    /\ LET rec == call[c].rec[1] IN
       IF MatchesUpdateOne(rec.id, call[c].version)
       THEN /\ collection' = [collection EXCEPT ![rec.id] =
                  [data |-> Some(bsonUser(rec)),
                   events |-> Append(@.events,
                      eventFor(Updated, rec.id, rec.version,
                               Some(bsonUser(rec))))]]
            /\ appended' = [appended EXCEPT ![rec.id] =
                  Append(@, [action |-> Updated, version |-> rec.version])]
            /\ call' = [call EXCEPT ![c] =
                  Returned("UpdateOne", @.id, @.version, @.rec, Ok)]
       ELSE /\ call' = [call EXCEPT ![c] =
                  Returned("UpdateOne", @.id, @.version, @.rec,
                           ErrInvalidVersion)]
            /\ UNCHANGED storeVars
    /\ UNCHANGED <<routineVars, request, nOps, cancelled, monitorVars, pumpVars>>

\* DeleteOne without the $push of the Deleted entry
DeleteOneNoEntry(c, id) ==
    /\ CanStart(c)
    /\ nOps' = nOps + 1
    /\ IF MatchesReadOne(id)
       THEN /\ collection' = [collection EXCEPT ![id].data = Nil]
            /\ call' = [call EXCEPT ![c] =
                  Returned("DeleteOne", "none", 0, Nil, Ok)]
       ELSE /\ call' = [call EXCEPT ![c] =
                  Returned("DeleteOne", "none", 0, Nil, ErrNotFound)]
            /\ UNCHANGED collection
    /\ UNCHANGED <<routineVars, request, appended, cancelled, monitorVars, pumpVars>>

\* DeleteOne that pushes the Deleted entry and leaves the payload
DeleteOneKeepPayload(c, id) ==
    /\ CanStart(c)
    /\ nOps' = nOps + 1
    /\ IF MatchesReadOne(id)
       THEN /\ collection' = [collection EXCEPT ![id].events =
                  Append(@, eventFor(Deleted, id, MaxInt64, Nil))]
            /\ appended' = [appended EXCEPT ![id] =
                  Append(@, [action |-> Deleted, version |-> MaxInt64])]
            /\ call' = [call EXCEPT ![c] =
                  Returned("DeleteOne", "none", 0, Nil, Ok)]
       ELSE /\ call' = [call EXCEPT ![c] =
                  Returned("DeleteOne", "none", 0, Nil, ErrNotFound)]
            /\ UNCHANGED storeVars
    /\ UNCHANGED <<routineVars, request, cancelled, monitorVars, pumpVars>>

\* Store.DeleteOne: one UpdateOne that clears the payload and pushes the
\* Deleted entry; ModifiedCount is 1 iff the filter (that of ReadOne) matched
DeleteOne(c, id) ==
    /\ CanStart(c)
    /\ nOps' = nOps + 1
    /\ IF MatchesReadOne(id)
       THEN /\ collection' = [collection EXCEPT ![id] =
                  [data |-> Nil,
                   events |-> Append(@.events,
                      eventFor(Deleted, id, MaxInt64, Nil))]]
            /\ appended' = [appended EXCEPT ![id] =
                  Append(@, [action |-> Deleted, version |-> MaxInt64])]
            /\ call' = [call EXCEPT ![c] =
                  Returned("DeleteOne", "none", 0, Nil, Ok)]
       ELSE /\ call' = [call EXCEPT ![c] =
                  Returned("DeleteOne", "none", 0, Nil, ErrNotFound)]
            /\ UNCHANGED storeVars
    /\ UNCHANGED <<routineVars, request, cancelled, monitorVars, pumpVars>>

(***************************************************************************)
(* Store: the claim step of Events and ProcessEvent.                       *)
(***************************************************************************)
\* the filter of readAndUpdateNextEvent without the age of the lease
MatchesNextEventNoLease(id) ==
    /\ HasHead(id)
    /\ HeadOf(id).state \in {Pending, Processing}

\* the filter of readAndUpdateNextEvent without the entries whose lease
\* has run out
MatchesNextEventPendingOnly(id) ==
    /\ HasHead(id)
    /\ HeadOf(id).state = Pending

\* the filter of readAndUpdateNextEvent: the entry at index 0 is Pending,
\* or Processing and last updated before now - retryTimeout
MatchesNextEvent(id) ==
    /\ HasHead(id)
    /\ \/ HeadOf(id).state = Pending
       \/ /\ HeadOf(id).state = Processing
          /\ HeadOf(id).updatedAt < now - retryTimeout

\* readAndUpdateNextEvent without the sort: any matching document
Unsorted(id) == MatchesNextEvent(id)

\* the sort of readAndUpdateNextEvent: of the matching documents, one
\* whose events.0.updated_at is smallest (any of them when several are)
SortedFirst(id) ==
    /\ MatchesNextEvent(id)
    /\ \A j \in Stored :
          MatchesNextEvent(j) => HeadOf(id).updatedAt <= HeadOf(j).updatedAt

\* an update that marks every entry of the outbox
ClaimedAll(rec) ==
    [rec EXCEPT !.events = [i \in DOMAIN @ |->
        [@[i] EXCEPT !.state = Processing, !.updatedAt = now]]]

\* the update of readAndUpdateNextEvent: events.0 becomes Processing and
\* its updated_at the current time
Claimed(rec) ==
    [rec EXCEPT !.events[1].state = Processing, !.events[1].updatedAt = now]

\* readAndUpdateNextEvent finds document id: one FindOneAndUpdate.  The
\* entry returned is events[0] of the document as it was before the update.
readAndUpdateNextEvent(id) ==
    /\ SortedFirst(id)
    /\ collection' = [collection EXCEPT ![id] = Claimed(@)]

\* the filter of ProcessEvent without the version
MatchesProcessEventAnyVersion(id, version) ==
    /\ HasHead(id)
    /\ HeadOf(id).state = Processing

\* the filter of Store.ProcessEvent: _id, events.0.state is Processing and
\* events.0.data.version is the version given.  The path data.version does
\* not exist in an entry whose data is null, and such an entry matches no
\* version.
MatchesProcessEvent(id, version) ==
    /\ HasHead(id)
    /\ HeadOf(id).state = Processing
    /\ HeadOf(id).data # Nil
    /\ HeadOf(id).data[1].version = version

\* Store.ProcessEvent: pop the first entry of the matching document; no
\* document matching is no error
ProcessEvent(id, version) ==
    IF MatchesProcessEvent(id, version)
    THEN collection' = [collection EXCEPT ![id].events = Tail(@)]
    ELSE UNCHANGED collection

(***************************************************************************)
(* The goroutine of Store.Events, per subscriber.                          *)
(*   "claim"  about to call readAndUpdateNextEvent                         *)
(*   "yield"  in the select: ctx.Done or send the result on out            *)
(*   "wait"   in waitWithJitter                                            *)
(*   "closed" out is closed, the goroutine has returned                    *)
(***************************************************************************)
NoResult == [err |-> "none", event |-> Nil]

\* readAndUpdateNextEvent found a document: the entry returned is the
\* result to yield
EventsClaim(s) ==
    /\ evPc[s] = "claim"
    /\ ~cancelled[s]
    /\ \E id \in Stored :
          /\ readAndUpdateNextEvent(id)
          /\ evResult' = [evResult EXCEPT ![s] =
                [err |-> Ok, event |-> Some(HeadOf(id))]]
    /\ evPc' = [evPc EXCEPT ![s] = "yield"]
    /\ UNCHANGED <<routineVars, request, call, nOps, cancelled, monitorVars, tasks, appended, sent>>

\* readAndUpdateNextEvent returned mongo.ErrNoDocuments: the loop
\* continues with the next call
EventsNoDocuments(s) ==
    /\ evPc[s] = "claim"
    /\ ~cancelled[s]
    /\ \A id \in Stored : ~MatchesNextEvent(id)
    /\ UNCHANGED vars

\* the call fails only while the context is not done
EventsErrorLive(s) ==
    /\ evPc[s] = "claim"
    /\ ~cancelled[s]
    /\ evResult' = [evResult EXCEPT ![s] = [err |-> "error", event |-> Nil]]
    /\ evPc' = [evPc EXCEPT ![s] = "yield"]
    /\ UNCHANGED <<routineVars, request, storeVars, call, nOps, cancelled, monitorVars, tasks, sent>>

\* readAndUpdateNextEvent returned another error (the context is done, or
\* the call failed): the error is the result to yield
EventsError(s) ==
    /\ evPc[s] = "claim"
    /\ evResult' = [evResult EXCEPT ![s] = [err |-> "error", event |-> Nil]]
    /\ evPc' = [evPc EXCEPT ![s] = "yield"]
    /\ UNCHANGED <<routineVars, request, storeVars, call, nOps, cancelled, monitorVars, tasks, sent>>

\* out is closed also when the result to yield carries an error
EventsCloseOnError(s) ==
    /\ evPc[s] = "yield"
    /\ cancelled[s] \/ evResult[s].err \notin {Ok, "none"}
    /\ evPc' = [evPc EXCEPT ![s] = "closed"]
    /\ evResult' = [evResult EXCEPT ![s] = NoResult]
    /\ UNCHANGED <<routineVars, request, storeVars, call, nOps, cancelled, monitorVars, tasks, sent>>

\* the select of Events takes ctx.Done: close(out) and return
EventsClose(s) ==
    /\ evPc[s] = "yield"
    /\ cancelled[s]
    /\ evPc' = [evPc EXCEPT ![s] = "closed"]
    /\ evResult' = [evResult EXCEPT ![s] = NoResult]
    /\ UNCHANGED <<routineVars, request, storeVars, call, nOps, cancelled, monitorVars, tasks, sent>>

\* waitWithJitter returns: the timer fired or the context is done
waitWithJitter(s) ==
    /\ evPc[s] = "wait"
    /\ evPc' = [evPc EXCEPT ![s] = "claim"]
    /\ UNCHANGED <<routineVars, request, storeVars, call, nOps, cancelled, monitorVars, evResult,
                   tasks, sent>>

(***************************************************************************)
(* The pump: PublishChanges and the goroutines of publishChange.           *)
(*   "send"     about to call event.SendJSON                               *)
(*   "done"     waiting in result.Done(ctx)                                *)
(*   "process"  about to call store.ProcessEvent                           *)
(***************************************************************************)
\* Time.Format(TimeFormat): RFC 3339 has whole seconds, and a time is a
\* number of half milliseconds
Format(t) ==
    IF t < 2000 THEN "0001-01-01T00:00:00Z" ELSE "0001-01-01T00:00:01Z"

\* the user with every field of the record
unsanitizedUser(uu) == uu

\* the user as the service hands it out
sanitizedUserFromUserstoreUser(uu) ==
    [id |-> uu.id, firstName |-> uu.firstName, lastName |-> uu.lastName,
     nickname |-> uu.nickname, email |-> uu.email, country |-> uu.country,
     createdAt |-> Format(uu.createdAt), updatedAt |-> Format(uu.updatedAt),
     version |-> uu.version]

\* what publishChange sends of the entry it is given: ID, Version, Action
\* and the sanitized Data, which is nil for a record deleted
Published(ue) ==
    [id |-> ue.id, version |-> ue.version, action |-> ue.action,
     data |-> IF ue.data = Nil THEN Nil
              ELSE Some(sanitizedUserFromUserstoreUser(ue.data[1]))]

\* the context is done from the start: WithTimeout and the deferred
\* cancel are outside the goroutine
ctxDoneAtOnce(t) == TRUE

\* the context of a publish task is done when its deadline has passed:
\* the cancellation of the root context does not reach it
ctxDeadlineOnly(t) == now >= t.deadline

\* the context of a publish task is done: its deadline of RetryInterval
\* has passed or the root context is cancelled
ctxDone(t) == cancelled[t.sub] \/ now >= t.deadline

(***************************************************************************)
(* The monitor of the service.  A float64 is modelled as the rational it   *)
(* stands for, <<numerator, denominator>> in lowest terms: the arithmetic  *)
(* of the model is exact.  A window is followed up to MaxEvents outcomes;  *)
(* of a window that holds more the model keeps only that it does.          *)
(***************************************************************************)
RECURSIVE GCD(_, _)
GCD(a, b) == IF b = 0 THEN a ELSE GCD(b, a % b)

Rat(n, d) ==
    LET g == GCD(IF n < 0 THEN -n ELSE n, d) IN <<n \div g, d \div g>>
RatAdd(x, y) == Rat(x[1] * y[2] + y[1] * x[2], x[2] * y[2])
RatSub(x, y) == Rat(x[1] * y[2] - y[1] * x[2], x[2] * y[2])
\* x / float64(n), n > 0
RatDivInt(x, n) == Rat(x[1], x[2] * n)

\* the monitor of a service just constructed
NewMonitor == [eventCount |-> 0, successRate |-> Rat(0, 1)]
\* a window that holds more than MaxEvents outcomes
Untracked == [eventCount |-> MaxEvents + 1, successRate |-> Rat(0, 1)]
NothingRecorded == [ok |-> 0, failed |-> 0, rate |-> Nil]

\* the running mean that adds the new value without dividing by the count
recordEventResultSum(m, ok) ==
    IF m.eventCount >= MaxEvents THEN Untracked
    ELSE LET val == IF ok THEN Rat(1, 1) ELSE Rat(0, 1)
             eventCount == m.eventCount + 1
             change == RatSub(val, m.successRate)
         IN  [eventCount |-> eventCount,
              successRate |-> RatAdd(m.successRate, change)]

\* Service.recordEventResult: the fields after the call
recordEventResult(m, ok) ==
    IF m.eventCount >= MaxEvents THEN Untracked
    ELSE LET val == IF ok THEN Rat(1, 1) ELSE Rat(0, 1)
             eventCount == m.eventCount + 1
             change == RatDivInt(RatSub(val, m.successRate), eventCount)
         IN  [eventCount |-> eventCount,
              successRate |-> RatAdd(m.successRate, change)]

\* every outcome is recorded as a failure
RecordFailure(ok) ==
    /\ monitor' = recordEventResult(monitor, FALSE)
    /\ recorded' =
          IF monitor'.eventCount > MaxEvents THEN NothingRecorded
          ELSE [ok |-> recorded.ok, failed |-> recorded.failed + 1,
                rate |-> Nil]

\* a goroutine of the pump calls recordEventResult(ok), under eventMtx
Record(ok) ==
    /\ monitor' = recordEventResult(monitor, ok)
    /\ recorded' =
          IF monitor'.eventCount > MaxEvents THEN NothingRecorded
          ELSE [ok |-> recorded.ok + (IF ok THEN 1 ELSE 0),
                failed |-> recorded.failed + (IF ok THEN 0 ELSE 1),
                rate |-> Nil]

\* Service.CheckEventSuccessRateAndReset, as Monitor.Check calls it: 1.0
\* of an empty window, else the rate, and both fields set to zero.  (Of a
\* window that was not followed the rate is not known.)
CheckEventSuccessRateAndReset ==
    /\ recorded' = [ok |-> 0, failed |-> 0,
                    rate |-> IF monitor.eventCount = 0 THEN Some(Rat(1, 1))
                             ELSE IF monitor.eventCount > MaxEvents THEN Nil
                             ELSE Some(monitor.successRate)]
    /\ monitor' = IF monitor.eventCount = 0 THEN monitor ELSE NewMonitor
    /\ UNCHANGED <<routineVars, request, storeVars, call, nOps, cancelled, pumpVars>>

\* MinHealthyRatio of pkg/user: 0.9
MinHealthyRatio == Rat(9, 10)

\* x < y, of two rationals
RatLess(x, y) == x[1] * y[2] < y[1] * x[2]

\* the comparison that also fails a rate equal to the minimum
belowOrAtMinimum(rate) == ~RatLess(MinHealthyRatio, rate)

\* the comparison of Monitor.Check: rate < MinHealthyRatio
belowMinimum(rate) == RatLess(rate, MinHealthyRatio)

ErrUnhealthy == "EventSuccessBelowMinimum"

\* Monitor.Check, called by the health endpoint: the rate is read and the
\* window reset by CheckEventSuccessRateAndReset, and an error is returned
\* iff the rate is below MinHealthyRatio.  (Of a window that was not
\* followed the rate is not known, and either result is possible.)
Check(c) ==
    /\ CanStart(c)
    /\ recorded' = [ok |-> 0, failed |-> 0,
                    rate |-> IF monitor.eventCount = 0 THEN Some(Rat(1, 1))
                             ELSE IF monitor.eventCount > MaxEvents THEN Nil
                             ELSE Some(monitor.successRate)]
    /\ monitor' = IF monitor.eventCount = 0 THEN monitor ELSE NewMonitor
    /\ \E res \in {Ok, ErrUnhealthy} :
          /\ recorded'.rate # Nil =>
                (res = ErrUnhealthy <=> belowMinimum(recorded'.rate[1]))
          /\ call' = [call EXCEPT ![c] = Returned("Check", "none", 0, Nil, res)]
    /\ UNCHANGED <<routineVars, request, storeVars, nOps, cancelled, pumpVars>>

\* the goroutines running are told apart by a number: their rank in the
\* order they were started in
FreeSlot == Cardinality(tasks) + 1

\* the goroutines left when t has ended
Without(t) ==
    {[u EXCEPT !.slot = IF @ > t.slot THEN @ - 1 ELSE @] : u \in tasks \ {t}}

\* PublishChanges receives the result the goroutine of Events sends (out
\* is unbuffered: send and receive are one step).  An error is recorded;
\* an event is handed to publishChange, which starts the task.
PublishChanges(s) ==
    /\ publishing[s]
    /\ evPc[s] = "yield"
    /\ IF evResult[s].err = Ok
       THEN /\ Cardinality(tasks) < MaxTasks
            /\ tasks' = tasks \cup
                  {[slot |-> FreeSlot, sub |-> s,
                    event |-> Published(evResult[s].event[1]),
                    pc |-> "send", deadline |-> now + retryTimeout]}
            /\ UNCHANGED monitorVars
       ELSE /\ Record(FALSE)
            /\ UNCHANGED tasks
    /\ evPc' = [evPc EXCEPT ![s] = "wait"]
    /\ evResult' = [evResult EXCEPT ![s] = NoResult]
    /\ UNCHANGED <<routineVars, request, storeVars, call, nOps, cancelled, sent>>

\* event.SendJSON returned a Result: the bus has the event
publishSend(t) ==
    /\ t \in tasks
    /\ t.pc = "send"
    /\ sent' = sent \cup {Key(t.event)}
    /\ tasks' = (tasks \ {t}) \cup {[t EXCEPT !.pc = "done"]}
    /\ UNCHANGED <<routineVars, request, storeVars, call, nOps, cancelled, monitorVars, evPc,
                   evResult>>

\* event.SendJSON returned an error: the task records a failure and ends
publishSendError(t) ==
    /\ t \in tasks
    /\ t.pc = "send"
    /\ tasks' = Without(t)
    /\ Record(FALSE)
    /\ UNCHANGED <<routineVars, request, storeVars, call, nOps, cancelled, evPc, evResult,
                   sent>>

\* result.Done returned nil: the bus confirmed the send
publishDone(t) ==
    /\ t \in tasks
    /\ t.pc = "done"
    /\ tasks' = (tasks \ {t}) \cup {[t EXCEPT !.pc = "process"]}
    /\ UNCHANGED <<routineVars, request, storeVars, call, nOps, cancelled, monitorVars, evPc,
                   evResult, sent>>

\* result.Done returned an error (the bus failed, or the context is done):
\* the task records a failure and ends
publishDoneError(t) ==
    /\ t \in tasks
    /\ t.pc = "done"
    /\ tasks' = Without(t)
    /\ Record(FALSE)
    /\ UNCHANGED <<routineVars, request, storeVars, call, nOps, cancelled, evPc, evResult,
                   sent>>

\* store.ProcessEvent(ctx, ue.ID, ue.Version) returned nil: the task
\* records a success and ends
publishProcessEvent(t) ==
    /\ t \in tasks
    /\ t.pc = "process"
    /\ ~ctxDone(t)
    /\ ProcessEvent(t.event.id, t.event.version)
    /\ tasks' = Without(t)
    /\ Record(TRUE)
    /\ UNCHANGED <<routineVars, request, appended, call, nOps, cancelled, evPc, evResult,
                   sent>>

\* store.ProcessEvent returned an error (the context is done, or the call
\* failed): nothing is removed, the task records a failure and ends
publishProcessEventError(t) ==
    /\ t \in tasks
    /\ t.pc = "process"
    /\ tasks' = Without(t)
    /\ Record(FALSE)
    /\ UNCHANGED <<routineVars, request, storeVars, call, nOps, cancelled, evPc, evResult,
                   sent>>

\* case <-ctx.Done() of the select of PublishChanges: break Loop, and
\* PublishChanges returns
PublishChangesCtxDone(s) ==
    /\ publishing[s]
    /\ cancelled[s]
    /\ publishing' = [publishing EXCEPT ![s] = FALSE]
    /\ UNCHANGED <<storeVars, pumpVars, monitorVars, request, call, nOps,
                   cancelled, health, eventMtx, sections, helpers>>

\* the channel of Events is closed: more is false, break Loop, and
\* PublishChanges returns
PublishChangesClosed(s) ==
    /\ publishing[s]
    /\ evPc[s] = "closed"
    /\ publishing' = [publishing EXCEPT ![s] = FALSE]
    /\ UNCHANGED <<storeVars, pumpVars, monitorVars, request, call, nOps,
                   cancelled, health, eventMtx, sections, helpers>>

\* the root context of a pump is cancelled
Cancel(s) ==
    /\ ~cancelled[s]
    /\ cancelled' = [cancelled EXCEPT ![s] = TRUE]
    /\ UNCHANGED <<routineVars, request, storeVars, call, nOps, pumpVars, monitorVars>>

(***************************************************************************)
(* Time.  A tick moves every stored timestamp and every deadline one tick  *)
(* into the past (those at 0 stay: they are MaxTime ticks old or older).   *)
(* The timestamps of a payload are values of the caller and do not move.   *)
(***************************************************************************)
Earlier(t) == IF t > 0 THEN t - 1 ELSE 0

EarlierEvent(e) == [e EXCEPT !.updatedAt = Earlier(@)]

\* a deadline that has passed stays passed, and how long ago is not kept
EarlierDeadline(d) == IF d > now THEN d - 1 ELSE d

EarlierEvents(es) == [i \in DOMAIN es |-> EarlierEvent(es[i])]

Tick ==
    /\ collection' = [id \in Stored |->
          [collection[id] EXCEPT !.events = EarlierEvents(@)]]
    /\ evResult' = [s \in Subs |->
          [evResult[s] EXCEPT !.event = EarlierEvents(@)]]
    /\ tasks' = {[t EXCEPT !.deadline = EarlierDeadline(@)] : t \in tasks}
    /\ UNCHANGED <<routineVars, request, call, nOps, evPc, cancelled, monitorVars, appended, sent>>

\* Time that keeps the order of the timestamps it no longer measures.  A
\* timestamp above 0 is one tick older after the tick; those that the tick
\* leaves at 0 or below are MaxTime ticks old or older and keep their
\* order: 0 is the youngest of them, and one is as far below 0 as there are
\* distinct younger ones.
Stamps ==
    UNION {{collection[id].events[i].updatedAt :
               i \in DOMAIN collection[id].events} : id \in Stored}

InOrder(t) ==
    IF t > 1 THEN t - 1
    ELSE 0 - Cardinality({u \in Stamps : u <= 1 /\ u > t})

TickInOrder ==
    /\ collection' = [id \in Stored |->
          [collection[id] EXCEPT !.events =
              [i \in DOMAIN @ |-> [@[i] EXCEPT !.updatedAt = InOrder(@)]]]]
    /\ evResult' = [s \in Subs |->
          [evResult[s] EXCEPT !.event =
              [i \in DOMAIN @ |-> [@[i] EXCEPT !.updatedAt = InOrder(@)]]]]
    /\ tasks' = {[t EXCEPT !.deadline = EarlierDeadline(@)] : t \in tasks}
    /\ UNCHANGED <<routineVars, request, call, nOps, evPc, cancelled, monitorVars, appended, sent>>

(***************************************************************************)
(* Callers of the store other than the service: a consumer that takes the  *)
(* results of Events itself and calls ProcessEvent with an id and a        *)
(* version of its own (collectEvents of the store's tests does both).      *)
(***************************************************************************)
\* the consumer receives the result the goroutine of Events sends
Receive(s) ==
    /\ evPc[s] = "yield"
    /\ evPc' = [evPc EXCEPT ![s] = "wait"]
    /\ evResult' = [evResult EXCEPT ![s] = NoResult]
    /\ UNCHANGED <<routineVars, request, storeVars, call, nOps, cancelled, monitorVars, tasks, sent>>

\* a call of Store.ProcessEvent(id, version) by a client; it returns nil
\* whether or not a document matched
ProcessEventCall(c, id, version) ==
    /\ call[c].pc \in {"idle", "done"}
    /\ ProcessEvent(id, version)
    /\ call' = [call EXCEPT ![c] =
          Returned("ProcessEvent", "none", 0, Nil, Ok)]
    /\ UNCHANGED <<routineVars, request, nOps, cancelled, monitorVars, pumpVars, appended>>

\* the versions a caller gives to ProcessEvent
Versions == (DefaultVersion .. MaxOps) \cup {MaxInt64}

(***************************************************************************)
(* Store: FindMany.  findTotal and findItems run in two goroutines, each   *)
(* with one query of the collection; FindMany returns when it has both     *)
(* results.                                                                *)
(***************************************************************************)
\* filterFromQuery: does the document match?  The time of the query is
\* encoded as a BSON date, as the times stored are; a document whose data
\* is null has no data.created_at and does not match.
filterFromQuery(q, id) ==
    /\ collection[id].data # Nil
    /\ collection[id].data[1].createdAt >= bsonTime(q.createdAfter)
    /\ q.country # "" => collection[id].data[1].country = q.country

\* skipFromQuery
skipFromQuery(q) ==
    LET skip == q.length * (q.page - 1) IN IF skip < 0 THEN 0 ELSE skip

\* the matching payloads in an order that SetSort(data.created_at: 1) can
\* give them: ascending, payloads of one time in any order
Sorted(q) ==
    LET ids == {id \in Stored : filterFromQuery(q, id)}
        n == Cardinality(ids)
    IN  {[i \in 1 .. n |-> collection[f[i]].data[1]] :
            f \in {g \in [1 .. n -> ids] :
                     /\ \A i, j \in 1 .. n : i # j => g[i] # g[j]
                     /\ \A i, j \in 1 .. n :
                           i < j => collection[g[i]].data[1].createdAt <=
                                    collection[g[j]].data[1].createdAt}}

\* SetSkip and SetLimit: a limit of 0 is no limit
Batch(docs, skip, limit) ==
    LET last == IF limit = 0 \/ skip + limit > Len(docs)
                THEN Len(docs) ELSE skip + limit
    IN  SubSeq(docs, skip + 1, last)

\* the loop of findItems over the cursor: Decode of the current document,
\* append, Next.  Decode of a cursor that has no current document returns
\* an error, which ends the loop.
RECURSIVE cursorLoop(_, _, _)
cursorLoop(current, batch, items) ==
    IF current = Nil
    THEN items
    ELSE IF batch = <<>>
    THEN Append(items, current[1])
    ELSE cursorLoop(Some(Head(batch)), Tail(batch),
                    Append(items, current[1]))

\* the items findItems collects from the cursor that Find returned: the
\* cursor has no current document before the first call of Next
itemsOf(docs) == cursorLoop(Nil, docs, <<>>)

\* the queries made of FindMany
Queries ==
    {[createdAfter |-> createdAfter, country |-> country,
      length |-> length, page |-> page] :
        createdAfter \in {0, 3}, country \in {"", "NL"},
        length \in 1 .. 2, page \in 1 .. 2}

\* c is in FindMany and has one of the two results
Finding(c) == call[c].op = "FindMany" /\ call[c].pc = "find"

\* the page of c's FindMany so far, and c's call when result is added
PageOf(c, q) ==
    IF Finding(c) THEN call[c].rec[1]
    ELSE [query |-> q, page |-> q.page, total |-> Nil, items |-> Nil]

Found(c, page) ==
    IF page.total # Nil /\ page.items # Nil
    THEN Returned("FindMany", "none", 0, Some(page), Ok)
    ELSE [op |-> "FindMany", pc |-> "find", id |-> "none", version |-> 0,
          rec |-> Some(page), res |-> "none"]

\* findTotal of FindMany(q): CountDocuments
findTotal(c, q) ==
    /\ \/ CanStart(c)
       \/ Finding(c) /\ call[c].rec[1].query = q /\ call[c].rec[1].total = Nil
    /\ nOps' = IF CanStart(c) THEN nOps + 1 ELSE nOps
    /\ call' = [call EXCEPT ![c] =
          Found(c, [PageOf(c, q) EXCEPT !.total =
              Some(Cardinality({id \in Stored : filterFromQuery(q, id)}))])]
    /\ UNCHANGED <<routineVars, request, storeVars, cancelled, pumpVars, monitorVars>>

\* findItems of FindMany(q): Find, and the loop over the cursor
findItems(c, q) ==
    /\ \/ CanStart(c)
       \/ Finding(c) /\ call[c].rec[1].query = q /\ call[c].rec[1].items = Nil
    /\ nOps' = IF CanStart(c) THEN nOps + 1 ELSE nOps
    /\ \E docs \in Sorted(q) :
          call' = [call EXCEPT ![c] =
              Found(c, [PageOf(c, q) EXCEPT !.items =
                  Some(itemsOf(Batch(docs, skipFromQuery(q), q.length)))])]
    /\ UNCHANGED <<routineVars, request, storeVars, cancelled, pumpVars, monitorVars>>

(***************************************************************************)
(* The service: Create, Update and Delete of pkg/user.  A request is a     *)
(* sequence of steps: one for each call it makes of the store, and one for *)
(* the code of the service before and after each call.                     *)
(***************************************************************************)
\* the errors of pkg/user
UserErrAlreadyExists == "user: AlreadyExists"
UserErrInvalid == "user: Invalid"
UserErrInvalidVersion == "user: InvalidVersion"
UserErrNotFound == "user: NotFound"
\* an error made with fmt.Errorf around another one
ErrWrapped == "wrapped"
\* an error of the document engine that the store has no name for
ErrUnexpected == "error"

\* uuid.Nil, and the zero value of userstore.User
NilUUID == "00000000-0000-0000-0000-000000000000"
ZeroUser == User(NilUUID, "", "", "", "", "", "", 0, 0, 0)

\* the tags of the validator.  A name with a rune outside the class of
\* allowed-runes is "<f>"; the emails, countries and uuids that pass are
\* those of the model.
required(s) == s # ""
allowedRunes(s) == s # "<f>"
minTen(s) == Len(s) >= 10
isEmail(s) == s \in Emails
isCountry(s) == s \in {"DE", "NL"}
isUUID(s) == s \in IDs

\* a validator that passes every NewUser
validNewUserAlways(n) == TRUE

\* validate.Struct of a NewUser
validNewUser(n) ==
    /\ required(n.firstName) /\ allowedRunes(n.firstName)
    /\ required(n.lastName) /\ allowedRunes(n.lastName)
    /\ required(n.nickname) /\ allowedRunes(n.nickname)
    /\ minTen(n.password)
    /\ required(n.confirmPassword) /\ n.confirmPassword = n.password
    /\ required(n.email) /\ isEmail(n.email)
    /\ required(n.country) /\ isCountry(n.country)

\* validate.Struct of an Update: the password may be empty
validUpdate(u) ==
    /\ isUUID(u.id)
    /\ required(u.firstName) /\ allowedRunes(u.firstName)
    /\ required(u.lastName) /\ allowedRunes(u.lastName)
    /\ (u.password = "" \/ minTen(u.password))
    /\ u.confirmPassword = u.password
    /\ required(u.country) /\ isCountry(u.country)

\* validate.Struct of a Ref
validRef(r) == isUUID(r.id)

\* PasswordHasher.Hash, when it returns no error
Hash(plain) == "hash(" \o plain \o ")"

\* the requests made of the service
NewUserInputs ==
    {[firstName |-> firstName, lastName |-> "l1", nickname |-> "na",
      password |-> password, confirmPassword |-> confirmPassword,
      email |-> "a@x", country |-> "DE"] :
        firstName \in {"f1", "<f>"},
        password \in {"password-01", "short"},
        confirmPassword \in {"password-01", "short"}}

UpdateInputs ==
    {[id |-> "u1", firstName |-> "f2", lastName |-> "l2",
      password |-> password, confirmPassword |-> password,
      country |-> "NL", version |-> version] :
        password \in {"", "password-02"}, version \in 0 .. 2}
    \cup
    {[id |-> id, firstName |-> "f2", lastName |-> "l2",
      password |-> password, confirmPassword |-> "",
      country |-> country, version |-> 1] :
        id \in {"u1", "not a uuid"}, password \in {"", "short"},
        country \in {"NL", "??"}}

RefInputs == {[id |-> id] : id \in {"u1", "not a uuid"}}

\* a request that has returned
Done(op, hashed, res, user) ==
    [op |-> op, pc |-> "done", input |-> Nil, rec |-> Nil,
     hashed |-> hashed, res |-> res, user |-> user]

\* a request that is about to call the store
Calling(op, pc, input, rec, hashed) ==
    [op |-> op, pc |-> pc, input |-> input, rec |-> rec, hashed |-> hashed,
     res |-> "none", user |-> Nil]

CanRequest(c) == request[c].pc \in {"idle", "done"} /\ CanStart(c)

\* the service running a request of c is at a call of the store that it
\* has not made yet
AtCall(c, op, pc) ==
    /\ request[c].op = op
    /\ request[c].pc = pc
    /\ call[c].pc = "idle"

\* the call of the store has returned
CallReturned(c, op, pc) ==
    /\ request[c].op = op
    /\ request[c].pc = pc
    /\ call[c].pc = "done"

\* the service goes on to a call of the store, or returns without one
Proceed(c) ==
    call' = IF request'[c].pc = "done" THEN call
            ELSE [call EXCEPT ![c] = Idle]

\* the ids the generator can return: uuids that no record has
FreshIDs ==
    IDs \ (Stored \cup {request[d].rec[1].id :
                           d \in {e \in Clients : request[e].rec # Nil}})

\* Service.Create up to its call of the store: the id, the hash, the
\* validation and the record composed
ServiceCreate(c, newUser) ==
    /\ CanRequest(c)
    /\ \E id \in FreshIDs \cup {NilUUID}, hashErr \in BOOLEAN :
          request' = [request EXCEPT ![c] =
              IF id = NilUUID
              THEN Done("Create", FALSE, ErrWrapped, Nil)
              ELSE IF hashErr
              THEN Done("Create", TRUE, ErrWrapped, Nil)
              ELSE IF ~validNewUser(newUser)
              THEN Done("Create", TRUE, UserErrInvalid, Nil)
              ELSE Calling("Create", "store", Some(newUser),
                      Some(User(id, newUser.firstName, newUser.lastName,
                                newUser.nickname, Hash(newUser.password),
                                newUser.email, newUser.country, 3, 3,
                                DefaultVersion)),
                      TRUE)]
    /\ Proceed(c)
    /\ UNCHANGED <<routineVars, storeVars, nOps, cancelled, pumpVars, monitorVars>>

\* the call store.Create of Service.Create
ServiceCreateStore(c) ==
    /\ AtCall(c, "Create", "store")
    /\ Create(c, request[c].rec[1])

\* Service.Create after store.Create returned
ServiceCreateReturn(c) ==
    /\ CallReturned(c, "Create", "store")
    /\ request' = [request EXCEPT ![c] =
          IF call[c].res = Ok
          THEN Done("Create", TRUE, Ok,
                    Some(sanitizedUserFromUserstoreUser(request[c].rec[1])))
          ELSE IF call[c].res = ErrAlreadyExists
          THEN Done("Create", TRUE, UserErrAlreadyExists, Nil)
          ELSE Done("Create", TRUE, ErrWrapped, Nil)]
    /\ UNCHANGED <<routineVars, storeVars, call, nOps, cancelled, pumpVars, monitorVars>>

\* Service.Update up to its first call of the store: the validation
ServiceUpdate(c, update) ==
    /\ CanRequest(c)
    /\ request' = [request EXCEPT ![c] =
          IF ~validUpdate(update)
          THEN Done("Update", FALSE, UserErrInvalid, Nil)
          ELSE Calling("Update", "read", Some(update), Nil, FALSE)]
    /\ Proceed(c)
    /\ UNCHANGED <<routineVars, storeVars, nOps, cancelled, pumpVars, monitorVars>>

\* the call store.ReadOne of Service.Update
ServiceUpdateReadOne(c) ==
    /\ AtCall(c, "Update", "read")
    /\ ReadOneCall(c, request[c].input[1].id)

\* the hasher is called whatever the update
passwordIsSetAlways(update) == TRUE

\* updateHashIfSet: is the password of the update set?
passwordIsSet(update) == Len(update.password) # 0

\* updateHashIfSet, when the hasher returns no error
updateHashIfSet(update, rec) ==
    IF passwordIsSet(update)
    THEN [rec EXCEPT !.passwordHash = Hash(update.password)]
    ELSE rec

\* the version of the update is never found stale
staleVersionNever(update, rec) == FALSE

\* Service.Update: update.Version != rec.Version
staleVersion(update, rec) == update.version # rec.version

\* Service.Update between store.ReadOne and store.UpdateOne.  Of the
\* errors of ReadOne only ErrNotFound returns; after any other the record
\* is the zero value and the code goes on.
ServiceUpdateCompose(c) ==
    /\ CallReturned(c, "Update", "read")
    /\ LET update == request[c].input[1]
           rec == IF call[c].rec = Nil THEN ZeroUser ELSE call[c].rec[1]
       IN  \E hashErr \in BOOLEAN :
              request' = [request EXCEPT ![c] =
                  IF call[c].res = ErrNotFound
                  THEN Done("Update", FALSE, UserErrNotFound, Nil)
                  ELSE IF staleVersion(update, rec)
                  THEN Done("Update", FALSE, UserErrInvalidVersion, Nil)
                  ELSE IF passwordIsSet(update) /\ hashErr
                  THEN Done("Update", TRUE, ErrWrapped, Nil)
                  ELSE Calling("Update", "store", Some(update),
                          Some([updateHashIfSet(update, rec) EXCEPT
                                   !.firstName = update.firstName,
                                   !.lastName = update.lastName,
                                   !.country = update.country,
                                   !.updatedAt = 5]),
                          passwordIsSet(update))]
    /\ Proceed(c)
    /\ UNCHANGED <<routineVars, storeVars, nOps, cancelled, pumpVars, monitorVars>>

\* the call store.UpdateOne of Service.Update: its first call of the
\* collection (UpdateOneWrite is its second)
ServiceUpdateStore(c) ==
    /\ AtCall(c, "Update", "store")
    /\ UpdateOneRead(c, request[c].rec[1])

\* Service.Update after store.UpdateOne returned
ServiceUpdateReturn(c) ==
    /\ CallReturned(c, "Update", "store")
    /\ request' = [request EXCEPT ![c] =
          IF call[c].res = Ok
          THEN Done("Update", @.hashed, Ok,
                    Some(sanitizedUserFromUserstoreUser(call[c].rec[1])))
          ELSE IF call[c].res = ErrNotFound
          THEN Done("Update", @.hashed, UserErrNotFound, Nil)
          ELSE IF call[c].res = ErrInvalidVersion
          THEN Done("Update", @.hashed, UserErrInvalidVersion, Nil)
          ELSE Done("Update", @.hashed, ErrWrapped, Nil)]
    /\ UNCHANGED <<routineVars, storeVars, call, nOps, cancelled, pumpVars, monitorVars>>

\* Service.Delete up to its call of the store: the validation
ServiceDelete(c, ref) ==
    /\ CanRequest(c)
    /\ request' = [request EXCEPT ![c] =
          IF ~validRef(ref)
          THEN Done("Delete", FALSE, UserErrInvalid, Nil)
          ELSE Calling("Delete", "store", Some(ref), Nil, FALSE)]
    /\ Proceed(c)
    /\ UNCHANGED <<routineVars, storeVars, nOps, cancelled, pumpVars, monitorVars>>

\* the call store.DeleteOne of Service.Delete
ServiceDeleteStore(c) ==
    /\ AtCall(c, "Delete", "store")
    /\ DeleteOne(c, request[c].input[1].id)

\* Service.Delete after store.DeleteOne returned
ServiceDeleteReturn(c) ==
    /\ CallReturned(c, "Delete", "store")
    /\ request' = [request EXCEPT ![c] =
          IF call[c].res = Ok
          THEN Done("Delete", FALSE, Ok, Nil)
          ELSE IF call[c].res = ErrNotFound
          THEN Done("Delete", FALSE, UserErrNotFound, Nil)
          ELSE Done("Delete", FALSE, ErrWrapped, Nil)]
    /\ UNCHANGED <<routineVars, storeVars, call, nOps, cancelled, pumpVars, monitorVars>>

\* a call of the store by the service fails in the document engine (the
\* connection, the context, the decoding): the store returns an error of
\* no name, wrapped, and has written nothing
StoreCallFails(c) ==
    /\ request[c].pc \in {"read", "store"}
    /\ call[c].pc \in {"idle", "write"}
    /\ nOps' = IF call[c].pc = "idle" THEN nOps + 1 ELSE nOps
    /\ call' = [call EXCEPT ![c] =
          Returned(IF request[c].pc = "read" THEN "ReadOne"
                   ELSE IF request[c].op = "Update" THEN "UpdateOne"
                   ELSE IF request[c].op = "Create" THEN "Create"
                   ELSE IF request[c].op = "Find" THEN "FindMany"
                   ELSE "DeleteOne",
                   "none", 0, Nil, ErrUnexpected)]
    /\ UNCHANGED <<routineVars, request, storeVars, cancelled, pumpVars, monitorVars>>

(***************************************************************************)
(* The service: Find.                                                      *)
(***************************************************************************)
DefaultPage == 1
DefaultLength == 25

\* time.Parse(TimeFormat, s): the time, or Nil for the error.  A time is a
\* number of half milliseconds; the fraction of the seconds is parsed.
Parse(s) ==
    IF s = "0001-01-01T00:00:00.001Z" THEN Some(2)
    ELSE IF s = "0001-01-01T00:00:00.0015Z" THEN Some(3)
    ELSE Nil

\* time.Time{}
ZeroTime == 0

\* the queries made of Service.Find
ServiceQueries ==
    {[createdAfter |-> createdAfter, country |-> country,
      length |-> length, page |-> page] :
        createdAfter \in {"", "yesterday", "0001-01-01T00:00:00.001Z",
                          "0001-01-01T00:00:00.0015Z"},
        country \in {"", "NL"}, length \in 0 .. 1, page \in {0 - 1, 0, 2}}

\* the page of the query whatever it is
pageAsGiven(page) == page

\* the defaults of Service.Find
pageOrDefault(page) == IF page = 0 THEN DefaultPage ELSE page

lengthOrDefault(length) == IF length = 0 THEN DefaultLength ELSE length

createdAfterOrDefault(s) == IF Parse(s) = Nil THEN ZeroTime ELSE Parse(s)[1]

\* Service.Find up to its call of the store: the defaults are written to
\* the query of the caller
ServiceFind(c, query) ==
    /\ CanRequest(c)
    /\ request' = [request EXCEPT ![c] =
          Calling("Find", "store",
                  Some([query EXCEPT !.page = pageOrDefault(query.page),
                                     !.length = lengthOrDefault(query.length)]),
                  Some([createdAfter |-> createdAfterOrDefault(query.createdAfter),
                        country |-> query.country,
                        length |-> lengthOrDefault(query.length),
                        page |-> pageOrDefault(query.page)]),
                  FALSE)]
    /\ Proceed(c)
    /\ UNCHANGED <<routineVars, storeVars, nOps, cancelled, pumpVars, monitorVars>>

\* the service is in store.FindMany
InFindMany(c) ==
    /\ request[c].op = "Find"
    /\ request[c].pc = "store"
    /\ call[c].pc \in {"idle", "find"}

\* the two queries of the call store.FindMany of Service.Find
ServiceFindTotal(c) == InFindMany(c) /\ findTotal(c, request[c].rec[1])

ServiceFindItems(c) == InFindMany(c) /\ findItems(c, request[c].rec[1])

\* the page as the service hands it out
sanitizedPage(page) ==
    [page |-> page.page, total |-> page.total[1],
     items |-> [i \in 1 .. Len(page.items[1]) |->
                   sanitizedUserFromUserstoreUser(page.items[1][i])]]

\* Service.Find after store.FindMany returned
ServiceFindReturn(c) ==
    /\ CallReturned(c, "Find", "store")
    /\ request' = [request EXCEPT ![c] =
          IF call[c].res = Ok
          THEN Done("Find", FALSE, Ok, Some(sanitizedPage(call[c].rec[1])))
          ELSE Done("Find", FALSE, ErrWrapped, Nil)]
    /\ UNCHANGED <<routineVars, storeVars, call, nOps, cancelled, pumpVars, monitorVars>>

\* the password hashes of the records that are found and published
Hashes == {"h1", "h2"}

\* records that differ in the password hash alone, and one more
HashedUsers ==
    {User("u1", "f1", "l1", "na", hash, "a@x", "DE", 3, 3, DefaultVersion) :
        hash \in Hashes}

StubItems ==
    {<<>>} \cup {<<user>> : user \in HashedUsers} \cup
    {<<user, User("u2", "f1", "l1", "nb", "h2", "b@x", "NL", 5, 5, 2)>> :
        user \in HashedUsers}

\* store.FindMany of the store that the tests of the service build it on:
\* it returns a page of records
stubFindMany(c) ==
    /\ InFindMany(c)
    /\ call[c].pc = "idle"
    /\ nOps' = nOps + 1
    /\ \E items \in StubItems :
          call' = [call EXCEPT ![c] =
              Returned("FindMany", "none", 0,
                       Some([query |-> request[c].rec[1],
                             page |-> request[c].rec[1].page,
                             total |-> Some(Len(items)),
                             items |-> Some(items)]), Ok)]
    /\ UNCHANGED <<routineVars, request, storeVars, cancelled, pumpVars, monitorVars>>

(***************************************************************************)
(* The health endpoint (package health).  Handle gives the request a       *)
(* context of CheckTimeout and collects one CheckResult of every monitor:  *)
(* collectResults starts a goroutine per monitor (collectResult), which    *)
(* calls Monitor.Check and then selects between sending its result on the  *)
(* unbuffered channel results and ctx.Done(); the loop of collectResults   *)
(* selects between receiving a result and ctx.Done().  Both ends of the    *)
(* channel list ctx.Done() of the same context: closing it releases every  *)
(* select that waits, and a select started after that finds it ready and   *)
(* no partner waiting, so a result changes hands only while the context    *)
(* is not done.  One request is followed at a time.                        *)
(***************************************************************************)
Monitors == {"m1", "m2", "m3"}

\* http.StatusOK and http.StatusInternalServerError
StatusOK == 200
StatusInternalServerError == 500

\* no request is handled
NoHandle ==
    [pc |-> "idle", monitors |-> {}, ctxDone |-> FALSE,
     routine |-> [m \in Monitors |-> "gone"],
     result |-> [m \in Monitors |-> TRUE],
     collectedResults |-> <<>>, ok |-> TRUE, status |-> 0,
     collectedAtDone |-> 0]

\* CheckResult{Name: monitor.Name(), OK: ...}
CheckResult(name, ok) == [name |-> name, ok |-> ok]

\* ok = result.OK: the conjunction with the results before is dropped
okOfLast(ok, result) == result.ok

\* ok = ok && result.OK
okOfAll(ok, result) == ok /\ result.ok

\* getStatus
getStatus(ok) == IF ok THEN StatusOK ELSE StatusInternalServerError

\* Handle, up to the loop of collectResults: a service constructed with
\* the monitors ms handles a request; the context is made, ok is true, a
\* goroutine is started for every monitor.  With no monitor the loop is
\* left at once.
Handle(ms) ==
    /\ health.pc \in {"idle", "done"}
    /\ \A m \in Monitors : health.routine[m] = "gone"
    /\ health' = [pc |-> IF ms = {} THEN "write" ELSE "collect",
                  monitors |-> ms, ctxDone |-> FALSE,
                  routine |-> [m \in Monitors |->
                                  IF m \in ms THEN "check" ELSE "gone"],
                  result |-> [m \in Monitors |-> TRUE],
                  collectedResults |-> <<>>, ok |-> TRUE, status |-> 0,
                  collectedAtDone |-> Cardinality(ms)]
    /\ UNCHANGED <<publishing, storeVars, pumpVars, monitorVars, request, call, nOps,
                   cancelled, eventMtx, sections, helpers>>

\* collectResult, the call of monitor.Check: it returns nil or an error
monitorCheck(m, err) ==
    /\ health.routine[m] = "check"
    /\ health' = [health EXCEPT !.routine[m] = "select",
                                !.result[m] = (err = Ok)]
    /\ UNCHANGED <<publishing, storeVars, pumpVars, monitorVars, request, call, nOps,
                   cancelled, eventMtx, sections, helpers>>

\* case out <- result of collectResult with case result := <-results of
\* collectResults: the result is appended and ok updated; the loop is
\* left when every monitor has a result
collectResult(m) ==
    /\ health.pc = "collect"
    /\ health.routine[m] = "select"
    /\ ~health.ctxDone
    /\ LET result == CheckResult(m, health.result[m])
           collectedResults == Append(health.collectedResults, result)
       IN  health' = [health EXCEPT
                         !.routine[m] = "gone",
                         !.collectedResults = collectedResults,
                         !.ok = okOfAll(health.ok, result),
                         !.pc = IF Len(collectedResults)
                                       < Cardinality(health.monitors)
                                THEN "collect" ELSE "write"]
    /\ UNCHANGED <<publishing, storeVars, pumpVars, monitorVars, request, call, nOps,
                   cancelled, eventMtx, sections, helpers>>

\* case <-ctx.Done() of collectResult: the goroutine ends, its result is
\* not sent
collectResultDone(m) ==
    /\ health.routine[m] = "select"
    /\ health.ctxDone
    /\ health' = [health EXCEPT !.routine[m] = "gone"]
    /\ UNCHANGED <<publishing, storeVars, pumpVars, monitorVars, request, call, nOps,
                   cancelled, eventMtx, sections, helpers>>

\* case <-ctx.Done() of collectResults: ok = false, break Loop
collectResultsDone ==
    /\ health.pc = "collect"
    /\ health.ctxDone
    /\ health' = [health EXCEPT !.ok = FALSE, !.pc = "write"]
    /\ UNCHANGED <<publishing, storeVars, pumpVars, monitorVars, request, call, nOps,
                   cancelled, eventMtx, sections, helpers>>

\* Handle after collectResults: the status is written, and the deferred
\* cancel ends the context
HandleWrite ==
    /\ health.pc = "write"
    /\ health' = [health EXCEPT !.status = getStatus(health.ok),
                                !.pc = "done", !.ctxDone = TRUE]
    /\ UNCHANGED <<publishing, storeVars, pumpVars, monitorVars, request, call, nOps,
                   cancelled, eventMtx, sections, helpers>>

\* CheckTimeout passes, or the context of the request is cancelled, while
\* the request is handled.  (History: the number of results collected by
\* then.)
HandleCtxDone ==
    /\ health.pc \in {"collect", "write"}
    /\ ~health.ctxDone
    /\ health' = [health EXCEPT
                     !.ctxDone = TRUE,
                     !.collectedAtDone = Len(health.collectedResults)]
    /\ UNCHANGED <<publishing, storeVars, pumpVars, monitorVars, request, call, nOps,
                   cancelled, eventMtx, sections, helpers>>

(***************************************************************************)
(* Store.FindMany followed goroutine by goroutine.  FindMany gives the     *)
(* call a context of findTimeout, starts the helpers findTotal and         *)
(* findItems, each a goroutine that queries the collection and then        *)
(* selects between ctx.Done() and sending its result on its own            *)
(* unbuffered channel, and receives first the total, then the items, each  *)
(* in a select with ctx.Done().  As at the health endpoint a result        *)
(* changes hands only while the context is not done.  The queries are      *)
(* given the context and return.  One call is followed at a time.          *)
(***************************************************************************)
Helpers == {"total", "items"}

\* no call of FindMany is made
NoFindMany ==
    [pc |-> "idle", ctxDone |-> FALSE,
     routine |-> [h \in Helpers |-> "gone"],
     result |-> [h \in Helpers |-> Ok],
     received |-> {}, err |-> Ok]

ErrContext == "context"

\* the select of a helper without the case of ctx.Done()
selectSendOnly(h) == FALSE

\* case <-ctx.Done() of the select of a helper can be taken
selectCtxDone(h) == helpers.ctxDone

\* FindMany up to its first select: the context is made and both helpers
\* are started
FindManyCall ==
    /\ helpers.pc \in {"idle", "returned"}
    /\ \A h \in Helpers : helpers.routine[h] = "gone"
    /\ helpers' = [pc |-> "total", ctxDone |-> FALSE,
                   routine |-> [h \in Helpers |-> "query"],
                   result |-> [h \in Helpers |-> Ok],
                   received |-> {}, err |-> Ok]
    /\ nOps' = nOps + 1
    /\ UNCHANGED <<publishing, storeVars, pumpVars, monitorVars, request, call,
                   cancelled, health, eventMtx, sections>>

\* the query of a helper (CountDocuments; Find and the loop over the
\* cursor) returns, with an error or without
helperQuery(h, err) ==
    /\ helpers.routine[h] = "query"
    /\ helpers' = [helpers EXCEPT !.routine[h] = "select",
                                  !.result[h] = err]
    /\ UNCHANGED <<publishing, storeVars, pumpVars, monitorVars, request, call, nOps,
                   cancelled, health, eventMtx, sections>>

\* case total = <-totalChan, case items = <-itemsChan with the send of the
\* helper; after the items FindMany returns, an error of the total before
\* an error of the items, and the deferred cancel ends the context
FindManyReceive(h) ==
    /\ helpers.pc = h
    /\ helpers.routine[h] = "select"
    /\ ~helpers.ctxDone
    /\ helpers' =
          IF h = "total"
          THEN [helpers EXCEPT !.routine[h] = "gone", !.pc = "items",
                               !.received = @ \cup {h}]
          ELSE [helpers EXCEPT
                   !.routine[h] = "gone", !.pc = "returned",
                   !.received = @ \cup {h}, !.ctxDone = TRUE,
                   !.err = IF helpers.result["total"] # Ok
                           THEN helpers.result["total"]
                           ELSE helpers.result["items"]]
    /\ UNCHANGED <<publishing, storeVars, pumpVars, monitorVars, request, call, nOps,
                   cancelled, health, eventMtx, sections>>

\* case <-ctx.Done() of a helper: the goroutine ends, its result is not
\* sent
helperCtxDone(h) ==
    /\ helpers.routine[h] = "select"
    /\ selectCtxDone(h)
    /\ helpers' = [helpers EXCEPT !.routine[h] = "gone"]
    /\ UNCHANGED <<publishing, storeVars, pumpVars, monitorVars, request, call, nOps,
                   cancelled, health, eventMtx, sections>>

\* case <-ctx.Done() of either select of FindMany: it returns the error
\* of the context
FindManyCtxDone ==
    /\ helpers.pc \in Helpers
    /\ helpers.ctxDone
    /\ helpers' = [helpers EXCEPT !.pc = "returned", !.err = ErrContext]
    /\ UNCHANGED <<publishing, storeVars, pumpVars, monitorVars, request, call, nOps,
                   cancelled, health, eventMtx, sections>>

\* findTimeout passes, or the context of the caller is cancelled, while
\* FindMany waits
FindManyTimeout ==
    /\ helpers.pc \in Helpers
    /\ ~helpers.ctxDone
    /\ helpers' = [helpers EXCEPT !.ctxDone = TRUE]
    /\ UNCHANGED <<publishing, storeVars, pumpVars, monitorVars, request, call, nOps,
                   cancelled, health, eventMtx, sections>>

(***************************************************************************)
(* The monitor followed statement by statement.  recordEventResult,        *)
(* CheckEventSuccessRateAndReset and CheckEventCount lock eventMtx, read   *)
(* and write eventCount and successRate one statement at a time, and       *)
(* unlock on return.  The goroutines: two publish tasks that record        *)
(* outcomes, a health check that reads and resets, a reader of the count.  *)
(* (History: an outcome is added to recorded, and a window closed, by the  *)
(* call that takes the lock for it.)                                       *)
(***************************************************************************)
Recorders == {"t1", "t2"}
Resetter == "check"
Counter == "count"
Routines == Recorders \cup {Resetter, Counter}

\* a goroutine outside the three functions that has no value returned
NoSection ==
    [pc |-> "idle", ok |-> FALSE, eventCount |-> 0,
     window |-> [ok |-> 0, failed |-> 0], rate |-> Rat(0, 1)]

\* what a division by a float64 zero gives: no finite number
NotFinite == <<1, 0>>

\* the mutex that no goroutine holds
Unlocked == "unlocked"

\* a mutex that excludes nobody
mutexIgnored == TRUE

\* eventMtx.Lock() returns only when no goroutine holds the mutex
mutexFree == eventMtx = Unlocked

\* the outcomes of the window that recorded follows
Window == [ok |-> recorded.ok, failed |-> recorded.failed]

\* recordEventResult(ok) by task g: val is set and the mutex locked
recordLock(g, ok) ==
    /\ sections[g].pc = "idle"
    /\ mutexFree
    /\ eventMtx' = g
    /\ sections' = [sections EXCEPT ![g] = [NoSection EXCEPT !.pc = "load",
                                                             !.ok = ok]]
    /\ recorded' = [ok |-> recorded.ok + (IF ok THEN 1 ELSE 0),
                    failed |-> recorded.failed + (IF ok THEN 0 ELSE 1),
                    rate |-> Nil]
    /\ nOps' = nOps + 1
    /\ UNCHANGED <<publishing, storeVars, pumpVars, monitor, request, call, cancelled,
                   health, helpers>>

\* service.eventCount += 1, the read
recordLoad(g) ==
    /\ sections[g].pc = "load"
    /\ sections' = [sections EXCEPT ![g].pc = "store",
                                    ![g].eventCount = monitor.eventCount]
    /\ UNCHANGED <<publishing, storeVars, pumpVars, monitorVars, request, call, nOps,
                   cancelled, health, helpers, eventMtx>>

\* service.eventCount += 1, the write
recordStore(g) ==
    /\ sections[g].pc = "store"
    /\ monitor' = [monitor EXCEPT !.eventCount = sections[g].eventCount + 1]
    /\ sections' = [sections EXCEPT ![g].pc = "rate"]
    /\ UNCHANGED <<publishing, storeVars, pumpVars, recorded, request, call, nOps,
                   cancelled, health, helpers, eventMtx>>

\* change := (val - successRate) / float64(eventCount);
\* successRate += change
recordRate(g) ==
    /\ sections[g].pc = "rate"
    /\ LET val == IF sections[g].ok THEN Rat(1, 1) ELSE Rat(0, 1)
       IN  monitor' =
              [monitor EXCEPT !.successRate =
                  IF monitor.eventCount = 0 \/ @ = NotFinite THEN NotFinite
                  ELSE RatAdd(@, RatDivInt(RatSub(val, @),
                                           monitor.eventCount))]
    /\ sections' = [sections EXCEPT ![g].pc = "unlock"]
    /\ UNCHANGED <<publishing, storeVars, pumpVars, recorded, request, call, nOps,
                   cancelled, health, helpers, eventMtx>>

\* the deferred Unlock of recordEventResult
recordUnlock(g) ==
    /\ sections[g].pc = "unlock"
    /\ g \in Recorders
    /\ eventMtx' = Unlocked
    /\ sections' = [sections EXCEPT ![g] = NoSection]
    /\ UNCHANGED <<publishing, storeVars, pumpVars, monitorVars, request, call, nOps,
                   cancelled, health, helpers>>

\* CheckEventSuccessRateAndReset: the mutex is locked.  (History: the
\* window the call closes.)
resetLock ==
    /\ sections[Resetter].pc \in {"idle", "returned"}
    /\ mutexFree
    /\ eventMtx' = Resetter
    /\ sections' = [sections EXCEPT
                       ![Resetter] = [NoSection EXCEPT !.pc = "read",
                                                       !.window = Window]]
    /\ recorded' = [ok |-> 0, failed |-> 0, rate |-> Nil]
    /\ UNCHANGED <<publishing, storeVars, pumpVars, monitor, request, call, nOps,
                   cancelled, health, helpers>>

\* if service.eventCount == 0 { return 1.0 }; rate := service.successRate
resetRead ==
    /\ sections[Resetter].pc = "read"
    /\ sections' = [sections EXCEPT
                       ![Resetter].eventCount = monitor.eventCount,
                       ![Resetter].rate = IF monitor.eventCount = 0
                                          THEN Rat(1, 1)
                                          ELSE monitor.successRate,
                       ![Resetter].pc = IF monitor.eventCount = 0
                                        THEN "unlock" ELSE "count"]
    /\ UNCHANGED <<publishing, storeVars, pumpVars, monitorVars, request, call, nOps,
                   cancelled, health, helpers, eventMtx>>

\* service.eventCount = 0
resetCount ==
    /\ sections[Resetter].pc = "count"
    /\ monitor' = [monitor EXCEPT !.eventCount = 0]
    /\ sections' = [sections EXCEPT ![Resetter].pc = "rate"]
    /\ UNCHANGED <<publishing, storeVars, pumpVars, recorded, request, call, nOps,
                   cancelled, health, helpers, eventMtx>>

\* service.successRate = 0.0
resetRate ==
    /\ sections[Resetter].pc = "rate"
    /\ monitor' = [monitor EXCEPT !.successRate = Rat(0, 1)]
    /\ sections' = [sections EXCEPT ![Resetter].pc = "unlock"]
    /\ UNCHANGED <<publishing, storeVars, pumpVars, recorded, request, call, nOps,
                   cancelled, health, helpers, eventMtx>>

\* the deferred Unlock of CheckEventSuccessRateAndReset; the rate is
\* returned
resetUnlock ==
    /\ sections[Resetter].pc = "unlock"
    /\ eventMtx' = Unlocked
    /\ sections' = [sections EXCEPT ![Resetter].pc = "returned"]
    /\ recorded' = [recorded EXCEPT !.rate = Some(sections[Resetter].rate)]
    /\ UNCHANGED <<publishing, storeVars, pumpVars, monitor, request, call, nOps,
                   cancelled, health, helpers>>

\* CheckEventCount: the mutex is locked.  (History: the window at the
\* call.)
countLock ==
    /\ sections[Counter].pc \in {"idle", "returned"}
    /\ mutexFree
    /\ eventMtx' = Counter
    /\ sections' = [sections EXCEPT
                       ![Counter] = [NoSection EXCEPT !.pc = "read",
                                                      !.window = Window]]
    /\ UNCHANGED <<publishing, storeVars, pumpVars, monitorVars, request, call, nOps,
                   cancelled, health, helpers>>

\* return service.eventCount, and the deferred Unlock
countReturn ==
    /\ sections[Counter].pc = "read"
    /\ eventMtx' = Unlocked
    /\ sections' = [sections EXCEPT
                       ![Counter].eventCount = monitor.eventCount,
                       ![Counter].pc = "returned"]
    /\ UNCHANGED <<publishing, storeVars, pumpVars, monitorVars, request, call, nOps,
                   cancelled, health, helpers>>

NoSections == [g \in Routines |-> NoSection]

(***************************************************************************)
(* The specifications.                                                     *)
(***************************************************************************)
Init ==
    /\ collection = <<>>
    /\ call = [c \in Clients |-> Idle]
    /\ nOps = 0
    /\ evPc = [s \in Subs |-> "claim"]
    /\ evResult = [s \in Subs |-> NoResult]
    /\ cancelled = [s \in Subs |-> FALSE]
    /\ tasks = {}
    /\ appended = [id \in IDs |-> <<>>]
    /\ sent = {}
    /\ monitor = NewMonitor
    /\ recorded = NothingRecorded
    /\ request = [c \in Clients |-> NoRequest]
    /\ health = NoHandle
    /\ eventMtx = Unlocked
    /\ sections = NoSections
    /\ helpers = NoFindMany
    /\ publishing = [s \in Subs |-> TRUE]

\* The service at work for longer than a window of its monitor is
\* followed: as Init, the monitor holding more than MaxEvents outcomes.
Running ==
    /\ collection = <<>>
    /\ call = [c \in Clients |-> Idle]
    /\ nOps = 0
    /\ evPc = [s \in Subs |-> "claim"]
    /\ evResult = [s \in Subs |-> NoResult]
    /\ cancelled = [s \in Subs |-> FALSE]
    /\ tasks = {}
    /\ appended = [id \in IDs |-> <<>>]
    /\ sent = {}
    /\ monitor = Untracked
    /\ recorded = NothingRecorded
    /\ request = [c \in Clients |-> NoRequest]
    /\ health = NoHandle
    /\ eventMtx = Unlocked
    /\ sections = NoSections
    /\ helpers = NoFindMany
    /\ publishing = [s \in Subs |-> TRUE]

\* The service with its pumps: one caller of the store working on one
\* record, and two pumps, each with its publishChange goroutines.
PumpUsers == {u \in NewUsers : u.id = "u1" /\ u.email = "a@x" /\ u.nickname = "na"}
PumpUpdates == {u \in Updates : u.id = "u1"}

Next ==
    \/ \E user \in PumpUsers : nOps < PumpOps /\ Create("c1", user)
    \/ \E update \in PumpUpdates : nOps < PumpOps /\ UpdateOneRead("c1", update)
    \/ UpdateOneWrite("c1")
    \/ nOps < PumpOps /\ DeleteOne("c1", "u1")
    \/ \E s \in Subs : EventsClaim(s)
    \/ \E s \in Subs : EventsNoDocuments(s)
    \/ \E s \in Subs : EventsError(s)
    \/ \E s \in Subs : EventsClose(s)
    \/ \E s \in Subs : waitWithJitter(s)
    \/ \E s \in Subs : PublishChanges(s)
    \/ \E t \in tasks : publishSend(t)
    \/ \E t \in tasks : publishSendError(t)
    \/ \E t \in tasks : publishDone(t)
    \/ \E t \in tasks : publishDoneError(t)
    \/ \E t \in tasks : publishProcessEvent(t)
    \/ \E t \in tasks : publishProcessEventError(t)
    \/ \E s \in Subs : Cancel(s)
    \/ Tick

Spec == Running /\ [][Next]_vars

\* The store under any callers: two clients with any records, and a
\* consumer that claims entries and calls ProcessEvent as it likes.
StoreNext ==
    \/ \E c \in Clients, user \in NewUsers : nOps < MaxOps /\ Create(c, user)
    \/ \E c \in Clients, update \in Updates :
          nOps < MaxOps /\ UpdateOneRead(c, update)
    \/ \E c \in Clients : UpdateOneWrite(c)
    \/ \E c \in Clients, id \in IDs : nOps < MaxOps /\ DeleteOne(c, id)
    \/ EventsClaim("p1")
    \/ EventsNoDocuments("p1")
    \/ Receive("p1")
    \/ waitWithJitter("p1")
    \/ \E id \in IDs, version \in Versions :
          ProcessEventCall("c2", id, version)
    \/ Tick

StoreSpec == Init /\ [][StoreNext]_vars

\* The service with one pump that is never cancelled, under fair
\* scheduling.
LiveNext ==
    \/ \E user \in PumpUsers : nOps < MaxOps /\ Create("c1", user)
    \/ \E update \in PumpUpdates : nOps < MaxOps /\ UpdateOneRead("c1", update)
    \/ UpdateOneWrite("c1")
    \/ nOps < MaxOps /\ DeleteOne("c1", "u1")
    \/ EventsClaim("p1")
    \/ EventsNoDocuments("p1")
    \/ EventsError("p1")
    \/ waitWithJitter("p1")
    \/ PublishChanges("p1")
    \/ \E t \in tasks : publishSend(t)
    \/ \E t \in tasks : publishSendError(t)
    \/ \E t \in tasks : publishDone(t)
    \/ \E t \in tasks : publishDoneError(t)
    \/ \E t \in tasks : publishProcessEvent(t)
    \/ \E t \in tasks : publishProcessEventError(t)
    \/ Tick

\* a publish task takes its next step, whatever the outcome
TaskStep ==
    \E t \in tasks :
        \/ publishSend(t)
        \/ publishSendError(t)
        \/ publishDone(t)
        \/ publishDoneError(t)
        \/ publishProcessEvent(t)
        \/ publishProcessEventError(t)

\* Time passes, every goroutine that can take a step takes one, and the
\* store does not fail a claim for ever.  The bus may fail every send.
RetrySpec ==
    /\ Running
    /\ [][LiveNext]_vars
    /\ WF_vars(Tick)
    /\ SF_vars(EventsClaim("p1"))
    /\ WF_vars(waitWithJitter("p1"))
    /\ WF_vars(PublishChanges("p1"))
    /\ WF_vars(TaskStep)

\* a publish task takes this step before its context is done
Timely(t) == t \in tasks /\ ~ctxDone(t)

\* As RetrySpec, and neither the bus nor the store fails or delays past
\* its deadline every publish task for ever.
LiveSpec ==
    /\ RetrySpec
    /\ SF_vars(\E t \in tasks : Timely(t) /\ publishSend(t))
    /\ SF_vars(\E t \in tasks : Timely(t) /\ publishDone(t))
    /\ SF_vars(\E t \in tasks : publishProcessEvent(t))

\* Creates and deletes by one caller, with any emails and nicknames, and a
\* consumer that claims entries and removes none.
KeysNext ==
    \/ \E user \in NewUsers : nOps < KeyOps /\ Create("c1", user)
    \/ \E id \in IDs : nOps < KeyOps /\ DeleteOne("c1", id)
    \/ EventsClaim("p1")
    \/ EventsNoDocuments("p1")
    \/ Receive("p1")
    \/ waitWithJitter("p1")

KeysSpec == Init /\ [][KeysNext]_vars

\* The calls that write a payload, by two callers with any records.
CallsNext ==
    \/ \E c \in Clients, user \in NewUsers : nOps < MaxOps /\ Create(c, user)
    \/ \E c \in Clients, update \in Updates :
          nOps < MaxOps /\ UpdateOneRead(c, update)
    \/ \E c \in Clients : UpdateOneWrite(c)
    \/ \E c \in Clients, id \in IDs : nOps < MaxOps /\ DeleteOne(c, id)

CallsSpec == Init /\ [][CallsNext]_vars

\* The store under two callers that also read.
ReadNext ==
    \/ \E c \in Clients, user \in NewUsers : nOps < MaxOps /\ Create(c, user)
    \/ \E c \in Clients, id \in IDs : nOps < MaxOps /\ ReadOneCall(c, id)
    \/ \E c \in Clients, update \in Updates :
          nOps < MaxOps /\ UpdateOneRead(c, update)
    \/ \E c \in Clients : UpdateOneWrite(c)
    \/ \E c \in Clients, id \in IDs : nOps < MaxOps /\ DeleteOne(c, id)

ReadSpec == Init /\ [][ReadNext]_vars

\* One stream of Store.Events whose context is cancelled at any time, with
\* a consumer that receives a result or does not.
CloseNext ==
    \/ \E user \in PumpUsers : nOps < PumpOps /\ Create("c1", user)
    \/ \E update \in PumpUpdates : nOps < PumpOps /\ UpdateOneRead("c1", update)
    \/ UpdateOneWrite("c1")
    \/ nOps < PumpOps /\ DeleteOne("c1", "u1")
    \/ EventsClaim("p1")
    \/ EventsNoDocuments("p1")
    \/ EventsError("p1")
    \/ EventsClose("p1")
    \/ waitWithJitter("p1")
    \/ Receive("p1")
    \/ Cancel("p1")
    \/ Tick

\* The goroutine of Events keeps running: a claim made with a context that
\* is done returns, waitWithJitter returns, and a select whose ctx.Done case
\* is ready again and again takes it in the end.  The consumer is under no
\* obligation.
CloseSpec ==
    /\ Init
    /\ [][CloseNext]_vars
    /\ WF_vars(cancelled["p1"] /\ EventsError("p1"))
    /\ WF_vars(waitWithJitter("p1"))
    /\ SF_vars(EventsClose("p1"))

\* Two records, created and deleted by one caller, and one stream of
\* Store.Events whose consumer receives every result and calls
\* ProcessEvent for an entry or does not.  The clock keeps the order of
\* the timestamps.
OrderUsers ==
    {u \in NewUsers : \/ u.id = "u1" /\ u.email = "a@x" /\ u.nickname = "na"
                      \/ u.id = "u2" /\ u.email = "b@x" /\ u.nickname = "nb"}

OrderNext ==
    \/ \E user \in OrderUsers : nOps < MaxOps /\ Create("c1", user)
    \/ \E id \in IDs : nOps < MaxOps /\ DeleteOne("c1", id)
    \/ EventsClaim("p1")
    \/ EventsNoDocuments("p1")
    \/ Receive("p1")
    \/ waitWithJitter("p1")
    \/ \E id \in IDs, version \in Versions :
          ProcessEventCall("c2", id, version)
    \/ TickInOrder

\* The goroutine of Events keeps running and its consumer keeps receiving;
\* time passes.
OrderSpec ==
    /\ Init
    /\ [][OrderNext]_vars
    /\ WF_vars(EventsClaim("p1"))
    /\ WF_vars(Receive("p1"))
    /\ WF_vars(waitWithJitter("p1"))
    /\ WF_vars(TickInOrder)

\* One stream of Store.Events that the pump receives from, without the
\* steps of the publish tasks; the root context is cancelled at any time.
StreamNext ==
    \/ \E user \in PumpUsers : nOps < PumpOps /\ Create("c1", user)
    \/ nOps < PumpOps /\ DeleteOne("c1", "u1")
    \/ EventsClaim("p1")
    \/ EventsNoDocuments("p1")
    \/ EventsError("p1")
    \/ EventsClose("p1")
    \/ waitWithJitter("p1")
    \/ PublishChanges("p1")
    \/ Cancel("p1")
    \/ Tick

StreamSpec == Init /\ [][StreamNext]_vars

\* The service from its construction, with one pump and its monitor: one
\* record is created and deleted, and the health check reads the monitor
\* at any time.
MonitorNext ==
    \/ \E user \in PumpUsers : nOps < PumpOps /\ Create("c1", user)
    \/ nOps < PumpOps /\ DeleteOne("c1", "u1")
    \/ EventsClaim("p1")
    \/ EventsNoDocuments("p1")
    \/ EventsError("p1")
    \/ waitWithJitter("p1")
    \/ PublishChanges("p1")
    \/ \E t \in tasks : publishSend(t)
    \/ \E t \in tasks : publishSendError(t)
    \/ \E t \in tasks : publishDone(t)
    \/ \E t \in tasks : publishDoneError(t)
    \/ \E t \in tasks : publishProcessEvent(t)
    \/ \E t \in tasks : publishProcessEventError(t)
    \/ CheckEventSuccessRateAndReset
    \/ Check("c2")
    \/ Tick

MonitorSpec == Init /\ [][MonitorNext]_vars

\* One pump whose root context is cancelled at any time.
DeadlineNext ==
    \/ \E user \in PumpUsers : nOps < PumpOps /\ Create("c1", user)
    \/ nOps < PumpOps /\ DeleteOne("c1", "u1")
    \/ EventsClaim("p1")
    \/ EventsNoDocuments("p1")
    \/ EventsError("p1")
    \/ waitWithJitter("p1")
    \/ PublishChanges("p1")
    \/ \E t \in tasks : publishSend(t)
    \/ \E t \in tasks : publishSendError(t)
    \/ \E t \in tasks : publishDone(t)
    \/ \E t \in tasks : publishDoneError(t)
    \/ \E t \in tasks : publishProcessEvent(t)
    \/ \E t \in tasks : publishProcessEventError(t)
    \/ Cancel("p1")
    \/ Tick

DeadlineSpec == Running /\ [][DeadlineNext]_vars

\* One pump whose root context is cancelled at any time and whose
\* PublishChanges returns.  The select of PublishChanges takes the case of
\* a context that is done in the end, and every publish task that can
\* take a step takes one.
ShutdownNext ==
    \/ DeadlineNext
    \/ EventsClose("p1")
    \/ PublishChangesCtxDone("p1")
    \/ PublishChangesClosed("p1")

ShutdownSpec ==
    /\ Running
    /\ [][ShutdownNext]_vars
    /\ WF_vars(PublishChangesCtxDone("p1"))
    /\ WF_vars(TaskStep)

\* the records handed to Store.Create by the callers that also find: of
\* two countries, created at the same time or one after the other
FoundUsers ==
    {User("u1", "f1", "l1", "na", "h1", "a@x", country, 2, 2, DefaultVersion) :
        country \in {"DE", "NL"}}
    \cup
    {User("u2", "f1", "l1", "nb", "h1", "b@x", "NL", createdAt, createdAt,
          DefaultVersion) : createdAt \in {2, 5}}

\* The store under a caller that creates and deletes and a caller that
\* finds.
FindNext ==
    \/ \E user \in FoundUsers : nOps < FindOps /\ Create("c1", user)
    \/ \E id \in IDs : nOps < FindOps /\ DeleteOne("c1", id)
    \/ \E q \in Queries : nOps < FindOps /\ CanStart("c2") /\ findTotal("c2", q)
    \/ \E q \in Queries : nOps < FindOps /\ CanStart("c2") /\ findItems("c2", q)
    \/ Finding("c2") /\ findTotal("c2", call["c2"].rec[1].query)
    \/ Finding("c2") /\ findItems("c2", call["c2"].rec[1].query)

FindSpec == Init /\ [][FindNext]_vars

\* The service under a caller that finds, over the store that another
\* caller creates records in and deletes them from.
QueryNext ==
    \/ \E user \in FoundUsers : nOps < FindOps /\ Create("c1", user)
    \/ \E id \in IDs : nOps < FindOps /\ DeleteOne("c1", id)
    \/ \E query \in ServiceQueries : nOps < FindOps /\ ServiceFind("c2", query)
    \/ ServiceFindTotal("c2")
    \/ ServiceFindItems("c2")
    \/ ServiceFindReturn("c2")
    \/ StoreCallFails("c2")

QuerySpec == Init /\ [][QueryNext]_vars

\* The service with one pump and a caller that finds, over records that
\* differ in the password hash; Find is served by the store or by the store
\* of the service's tests.
SanitizedQueries ==
    {q \in ServiceQueries : q.createdAfter = "" /\ q.page = 0 /\ q.country = ""}

SanitizedNext ==
    \/ \E user \in HashedUsers : nOps < PumpOps /\ Create("c1", user)
    \/ nOps < PumpOps /\ DeleteOne("c1", "u1")
    \/ EventsClaim("p1")
    \/ EventsNoDocuments("p1")
    \/ EventsError("p1")
    \/ waitWithJitter("p1")
    \/ PublishChanges("p1")
    \/ \E t \in tasks : publishSend(t)
    \/ \E t \in tasks : publishSendError(t)
    \/ \E t \in tasks : publishDone(t)
    \/ \E t \in tasks : publishDoneError(t)
    \/ \E t \in tasks : publishProcessEvent(t)
    \/ \E t \in tasks : publishProcessEventError(t)
    \/ \E query \in SanitizedQueries : nOps < PumpOps /\ ServiceFind("c2", query)
    \/ ServiceFindTotal("c2")
    \/ ServiceFindItems("c2")
    \/ stubFindMany("c2")
    \/ ServiceFindReturn("c2")
    \/ Tick

SanitizedSpec == Running /\ [][SanitizedNext]_vars

\* The service under two clients that create, update and delete one user,
\* with a store and a hasher that can fail.
ServiceNext ==
    \/ \E c \in Clients, newUser \in NewUserInputs :
          nOps < ServiceOps /\ ServiceCreate(c, newUser)
    \/ \E c \in Clients : ServiceCreateStore(c)
    \/ \E c \in Clients : ServiceCreateReturn(c)
    \/ \E c \in Clients, update \in UpdateInputs :
          nOps < ServiceOps /\ ServiceUpdate(c, update)
    \/ \E c \in Clients : ServiceUpdateReadOne(c)
    \/ \E c \in Clients : ServiceUpdateCompose(c)
    \/ \E c \in Clients : ServiceUpdateStore(c)
    \/ \E c \in Clients : UpdateOneWrite(c)
    \/ \E c \in Clients : ServiceUpdateReturn(c)
    \/ \E c \in Clients, ref \in RefInputs :
          nOps < ServiceOps /\ ServiceDelete(c, ref)
    \/ \E c \in Clients : ServiceDeleteStore(c)
    \/ \E c \in Clients : ServiceDeleteReturn(c)
    \/ \E c \in Clients : StoreCallFails(c)

ServiceSpec == Init /\ [][ServiceNext]_vars

\* The health endpoint of services constructed with any of the monitors,
\* handling one request after the other.
HealthNext ==
    \/ \E ms \in SUBSET Monitors : Handle(ms)
    \/ \E m \in Monitors, err \in {Ok, ErrUnhealthy} : monitorCheck(m, err)
    \/ \E m \in Monitors : collectResult(m)
    \/ \E m \in Monitors : collectResultDone(m)
    \/ collectResultsDone
    \/ HandleWrite
    \/ HandleCtxDone

HealthSpec == Init /\ [][HealthNext]_vars

\* The goroutines that use the monitor, each statement a step: two
\* publish tasks recording outcomes, a health check that reads and
\* resets the rate, and a reader of the count.
MutexNext ==
    \/ \E g \in Recorders, ok \in BOOLEAN :
          nOps < MaxRecords /\ recordLock(g, ok)
    \/ \E g \in Recorders : recordLoad(g)
    \/ \E g \in Recorders : recordStore(g)
    \/ \E g \in Recorders : recordRate(g)
    \/ \E g \in Recorders : recordUnlock(g)
    \/ resetLock
    \/ resetRead
    \/ resetCount
    \/ resetRate
    \/ resetUnlock
    \/ countLock
    \/ countReturn

MutexSpec == Init /\ [][MutexNext]_vars

\* Calls of Store.FindMany, one after the other, with queries that fail
\* or not and the timeout or cancellation at any moment.  Every goroutine
\* that can take a step takes one in the end.
HelpersNext ==
    \/ nOps < FindOps /\ FindManyCall
    \/ \E h \in Helpers, err \in {Ok, ErrUnexpected} : helperQuery(h, err)
    \/ \E h \in Helpers : FindManyReceive(h)
    \/ \E h \in Helpers : helperCtxDone(h)
    \/ FindManyCtxDone
    \/ FindManyTimeout

HelpersSpec ==
    /\ Init
    /\ [][HelpersNext]_vars
    /\ \A h \in Helpers :
          /\ WF_vars(\E err \in {Ok, ErrUnexpected} : helperQuery(h, err))
          /\ WF_vars(FindManyReceive(h))
          /\ WF_vars(helperCtxDone(h))
    /\ WF_vars(FindManyCtxDone)

(***************************************************************************)
(* Properties of the store calls.                                          *)
(***************************************************************************)
\* the payload and the outbox of document id in a collection (none and
\* empty when there is no such document)
PayloadIn(coll, id) == IF id \in DOMAIN coll THEN coll[id].data ELSE Nil
OutboxIn(coll, id) == IF id \in DOMAIN coll THEN coll[id].events ELSE <<>>

\* the entry that goes with a change of the payload of id from old to new
EntryOfChange(id, old, new) ==
    [id |-> id, state |-> Pending,
     action |-> IF old = Nil THEN Created
                ELSE IF new = Nil THEN Deleted ELSE Updated,
     version |-> IF new = Nil THEN MaxInt64 ELSE new[1].version,
     updatedAt |-> now, data |-> new]

\* this step changes the payload of id and appends its entry
Mutates(id, action) ==
    /\ PayloadIn(collection', id) # PayloadIn(collection, id)
    /\ OutboxIn(collection', id) = Append(OutboxIn(collection, id),
          EntryOfChange(id, PayloadIn(collection, id),
                        PayloadIn(collection', id)))
    /\ EntryOfChange(id, PayloadIn(collection, id),
                     PayloadIn(collection', id)).action = action
    /\ \A j \in DOMAIN collection' \ {id} :
          j \in Stored /\ collection'[j] = collection[j]

\* C1: in every step, the payload of a document changes exactly when one
\* Pending entry is appended to its outbox, and the entry is the one of the
\* change (Created, Updated or Deleted, with the new payload); a Create,
\* UpdateOne or DeleteOne that returns nil made the change of its kind
\* together with the entry in that one step, and one that returns
\* AlreadyExists, NotFound or InvalidVersion left the collection as it was.
C1_PayloadAndEntryTogether ==
    [][/\ \A id \in IDs :
             /\ PayloadIn(collection', id) # PayloadIn(collection, id)
                   => \E action \in {Created, Updated, Deleted} :
                         Mutates(id, action)
             /\ Len(OutboxIn(collection', id)) > Len(OutboxIn(collection, id))
                   => PayloadIn(collection', id) # PayloadIn(collection, id)
       /\ \A c \in Clients :
             /\ \A user \in NewUsers : Create(c, user) =>
                   IF call'[c].res = Ok
                   THEN Mutates(user.id, Created)
                        /\ PayloadIn(collection', user.id) = Some(bsonUser(user))
                   ELSE call'[c].res = ErrAlreadyExists
                        /\ UNCHANGED collection
             /\ \A update \in Updates : UpdateOneRead(c, update) =>
                   /\ UNCHANGED collection
                   /\ call'[c].pc = "done"
                         => call'[c].res \in {ErrNotFound, ErrInvalidVersion}
             /\ UpdateOneWrite(c) =>
                   IF call'[c].res = Ok
                   THEN Mutates(call[c].id, Updated)
                   ELSE call'[c].res = ErrInvalidVersion
                        /\ UNCHANGED collection
             /\ \A id \in IDs : DeleteOne(c, id) =>
                   IF call'[c].res = Ok
                   THEN Mutates(id, Deleted)
                   ELSE call'[c].res = ErrNotFound /\ UNCHANGED collection
      ]_vars

\* a record was created and deleted, a second delete of it returned
\* NotFound, and both entries are in its outbox
C1_Witness ==
    \E id \in Stored, c \in Clients :
        /\ collection[id].data = Nil
        /\ Len(collection[id].events) = 2
        /\ collection[id].events[1].action = Created
        /\ collection[id].events[2].action = Deleted
        /\ call[c].op = "DeleteOne"
        /\ call[c].res = ErrNotFound

\* the calls of UpdateOne that have returned
UpdatesDone == {c \in Clients : call[c].op = "UpdateOne" /\ call[c].pc = "done"}

\* the Updated entries appended to the outbox of id with this version
UpdatedEntries(id, version) ==
    {i \in DOMAIN appended[id] :
        appended[id][i] = [action |-> Updated, version |-> version]}

\* C5: of two calls of UpdateOne for one record that presented the same
\* version n, at most one returned nil.  When one did, the other returned
\* InvalidVersion if it found the record (always so when it had read the
\* record at version n, as a concurrent call has) and NotFound if not;
\* one Updated entry with version n+1 was appended and no second one; and
\* the record, while it is there, has version n+1 (or more, when the entry
\* of a later update follows).
C5_OneOfTwoUpdatesWins ==
    \A c \in UpdatesDone : \A d \in UpdatesDone \ {c} :
        (call[c].id = call[d].id /\ call[c].version = call[d].version) =>
            LET id == call[c].id
                n == call[c].version
            IN /\ ~(call[c].res = Ok /\ call[d].res = Ok)
               /\ call[c].res = Ok =>
                     /\ call[d].res \in {ErrInvalidVersion, ErrNotFound}
                     /\ call[d].rec # Nil => call[d].res = ErrInvalidVersion
                     /\ Cardinality(UpdatedEntries(id, n + 1)) = 1
                     /\ Live(id) =>
                           /\ collection[id].data[1].version >= n + 1
                           /\ appended[id][Len(appended[id])].version = n + 1
                                 => collection[id].data[1].version = n + 1

\* both calls read the record at version n; one wrote and the write of the
\* other matched no document
C5_Witness ==
    \E c \in UpdatesDone : \E d \in UpdatesDone \ {c} :
        /\ call[c].id = call[d].id
        /\ call[c].version = call[d].version
        /\ call[c].res = Ok
        /\ call[d].res = ErrInvalidVersion
        /\ call[d].rec # Nil
        /\ Live(call[c].id)
        /\ collection[call[c].id].data[1].version = call[c].version + 1

\* no two documents with a payload have the same email or the same nickname
UniqueKeys ==
    \A i \in Stored : \A j \in Stored \ {i} :
        (Live(i) /\ Live(j)) =>
            /\ collection[i].data[1].email # collection[j].data[1].email
            /\ collection[i].data[1].nickname # collection[j].data[1].nickname

\* a document with a payload has the email or the nickname of this record
Clashes(user) ==
    \E j \in Stored :
        /\ Live(j)
        /\ \/ collection[j].data[1].email = user.email
           \/ collection[j].data[1].nickname = user.nickname

\* C10: after every step no two documents with a payload share an email or
\* a nickname, and a Create of a record whose email or nickname a document
\* with a payload has returns AlreadyExists and leaves the collection as it
\* was.
C10_UniqueEmailAndNickname ==
    [][/\ UniqueKeys'
       /\ \A c \in Clients : \A user \in NewUsers :
             (Create(c, user) /\ Clashes(user)) =>
                 /\ call'[c].res = ErrAlreadyExists
                 /\ UNCHANGED storeVars
      ]_vars

\* two records are there, different in email and nickname, and a Create
\* of a record with a new id returned AlreadyExists
C10_Witness ==
    \E c \in Clients :
        /\ call[c].op = "Create"
        /\ call[c].res = ErrAlreadyExists
        /\ call[c].id \notin Stored
        /\ \E j \in Stored : Live(j)

(***************************************************************************)
(* Properties of ProcessEvent.                                             *)
(***************************************************************************)
\* this step removes the first entry of the outbox of id and nothing else
RemovesHead(id) ==
    /\ id \in Stored
    /\ collection[id].events # <<>>
    /\ collection' = [collection EXCEPT ![id].events = Tail(@)]

\* C9: a call ProcessEvent(id, version) removes the first entry of the
\* outbox of id if that entry is Processing and its version is the version
\* given, and otherwise leaves the collection as it was.
C9_RemovesHeadIffProcessingAndVersion ==
    [][\A c \in Clients : \A id \in IDs : \A version \in Versions :
          ProcessEventCall(c, id, version) =>
              IF /\ HasHead(id)
                 /\ HeadOf(id).state = Processing
                 /\ HeadOf(id).version = version
              THEN RemovesHead(id)
              ELSE UNCHANGED collection
      ]_vars

\* C8: a publish task that calls ProcessEvent with the id and version of
\* the entry it was given, while that entry is the first of its outbox and
\* Processing, removes it, whatever its action.
C8_DrainRemovesYieldedEntry ==
    [][\A t \in tasks :
          (/\ publishProcessEvent(t)
           /\ HasHead(t.event.id)
           /\ HeadOf(t.event.id).state = Processing
           /\ Key(HeadOf(t.event.id)) = Key(t.event))
              => RemovesHead(t.event.id)
      ]_vars

(***************************************************************************)
(* Properties of the pump.                                                 *)
(***************************************************************************)
\* the entry with this version is in the outbox of id
InOutbox(id, version) ==
    \E k \in DOMAIN OutboxIn(collection, id) :
        collection[id].events[k].version = version

\* C2: a step that takes an entry out of an outbox takes the first entry,
\* and is the step of a publish task that was given that entry (same id and
\* version), handed it to the bus, had the send confirmed (it is about to
\* call ProcessEvent) and whose context is not done; the task ends with it.
C2_RemovedOnlyAfterConfirmedSend ==
    [][\A id \in Stored :
          Len(OutboxIn(collection', id)) < Len(collection[id].events) =>
              /\ RemovesHead(id)
              /\ HeadOf(id).state = Processing
              /\ \E t \in tasks :
                    /\ t.pc = "process"
                    /\ Key(t.event) = Key(HeadOf(id))
                    /\ Key(t.event) \in sent
                    /\ ~ctxDone(t)
                    /\ tasks' = Without(t)
      ]_vars

\* a task whose send was confirmed is about to call ProcessEvent for an
\* entry that the task of another claim has removed, while the entry that
\* followed it is claimed
C2_Witness ==
    \E t \in tasks :
        /\ t.pc = "process"
        /\ ~ctxDone(t)
        /\ ~InOutbox(t.event.id, t.event.version)
        /\ HasHead(t.event.id)
        /\ HeadOf(t.event.id).state = Processing

\* the entries (id and version) that Events has yielded or is about to:
\* those in a result not yet received, in a publish task, or sent
Surfaced ==
    {Key(evResult[s].event[1]) : s \in {x \in Subs : evResult[x].event # Nil}}
        \cup {Key(t.event) : t \in tasks}
        \cup sent

\* C4: the entries of a record are delivered in the order they were
\* appended.  When an entry has been claimed for yielding, every entry
\* appended to its outbox before it has been taken out of the outbox and
\* was handed to the bus before; and a claimed entry that is still in the
\* outbox is the first one there.
C4_DeliveryInAppendOrder ==
    \A id \in IDs : \A j \in DOMAIN appended[id] :
        <<id, appended[id][j].version>> \in Surfaced =>
            /\ \A i \in 1 .. (j - 1) :
                  /\ ~InOutbox(id, appended[id][i].version)
                  /\ <<id, appended[id][i].version>> \in sent
            /\ InOutbox(id, appended[id][j].version)
                  => HeadOf(id).version = appended[id][j].version

\* the second entry of a record has been handed to the bus while a task of
\* an earlier claim of the first one is still running
C4_Witness ==
    \E id \in IDs :
        /\ Len(appended[id]) = 2
        /\ <<id, appended[id][2].version>> \in sent
        /\ \E t \in tasks : Key(t.event) = <<id, appended[id][1].version>>

\* subscriber s claims the first entry of document id in this step
Claims(s, id) ==
    /\ evPc[s] = "claim"
    /\ evPc'[s] = "yield"
    /\ evResult'[s].err = Ok
    /\ evResult'[s].event[1].id = id
    /\ collection'[id] # collection[id]

\* C6: a step of Events that claims an entry finds it Pending, or
\* Processing with a stamp older than the retry interval; it yields that
\* entry and leaves it Processing with the current time as its stamp; and
\* no other step makes the stamp of a Processing first entry older than
\* the passing of time does.  So an entry claimed at t is not yielded again
\* before t + retryTimeout.
C6_LeaseExclusion ==
    [][\A id \in Stored :
          /\ \A s \in Subs : Claims(s, id) =>
                /\ HasHead(id)
                /\ HeadOf(id).state = Processing
                      => HeadOf(id).updatedAt < now - retryTimeout
                /\ evResult'[s].event = Some(HeadOf(id))
                /\ collection'[id].events[1] =
                      [HeadOf(id) EXCEPT !.state = Processing,
                                         !.updatedAt = now]
          /\ (/\ HasHead(id)
              /\ HeadOf(id).state = Processing
              /\ collection'[id].events # <<>>
              /\ collection'[id].events[1].version = HeadOf(id).version
              /\ \A s \in Subs : ~Claims(s, id))
                => /\ collection'[id].events[1].state = Processing
                   /\ collection'[id].events[1].updatedAt
                         \in {HeadOf(id).updatedAt,
                              Earlier(HeadOf(id).updatedAt)}
      ]_vars

\* an entry was claimed, its lease has not run out, and the other
\* subscriber, not cancelled, is about to call readAndUpdateNextEvent
C6_Witness ==
    \E id \in Stored : \E s \in Subs :
        /\ HasHead(id)
        /\ HeadOf(id).state = Processing
        /\ HeadOf(id).updatedAt >= now - retryTimeout
        /\ HeadOf(id).updatedAt < now
        /\ evPc[s] = "claim"
        /\ ~cancelled[s]
        /\ \E t \in tasks : t.sub # s /\ Key(t.event) = Key(HeadOf(id))

(***************************************************************************)
(* Progress of the pump.                                                   *)
(***************************************************************************)
\* C3: every entry in an outbox is eventually handed to the bus, when the
\* pump keeps running and neither the bus nor the store fails for ever.
C3_EveryEntryEventuallySent ==
    \A id \in IDs : \A version \in Versions :
        InOutbox(id, version) ~> (<<id, version>> \in sent)

\* both entries of a record that was created and then changed have been
\* handed to the bus, the second after a failed publish of the first
C3_Witness ==
    \E id \in IDs :
        /\ Len(appended[id]) = 2
        /\ \A j \in 1 .. 2 : <<id, appended[id][j].version>> \in sent
        /\ HasHead(id)
        /\ HeadOf(id).version = appended[id][2].version
        /\ HeadOf(id).state = Processing
        /\ tasks = {}

\* the first entry of the outbox of id has this version, is Processing and
\* was claimed before the current tick
Leased(id, version) ==
    /\ HasHead(id)
    /\ HeadOf(id).version = version
    /\ HeadOf(id).state = Processing
    /\ HeadOf(id).updatedAt < now

\* the entry has just been claimed: it is yielded or about to be
FreshlyClaimed(id, version) ==
    /\ HasHead(id)
    /\ HeadOf(id).version = version
    /\ HeadOf(id).state = Processing
    /\ HeadOf(id).updatedAt = now
    /\ \/ evResult["p1"].event # Nil
       \/ \E t \in tasks : Key(t.event) = <<id, version>>

\* C7: an entry that was claimed and is still the first of its outbox,
\* Processing, is claimed and yielded again later unless it is removed;
\* also when the bus fails every send, so that it is yielded again and
\* again.
C7_LeaseReclaimed ==
    \A id \in IDs : \A version \in Versions :
        Leased(id, version)
            ~> (FreshlyClaimed(id, version) \/ ~InOutbox(id, version))

\* an entry whose publish failed (no task is left) is Processing with a
\* lease that has run out
C7_Witness ==
    \E id \in Stored :
        /\ HasHead(id)
        /\ HeadOf(id).state = Processing
        /\ HeadOf(id).updatedAt < now - retryTimeout
        /\ tasks = {}
        /\ evPc["p1"] = "claim"
        /\ Key(HeadOf(id)) \notin sent

(***************************************************************************)
(* Properties of the documents and their payloads.                         *)
(***************************************************************************)
\* a Deleted entry was appended to the outbox of id: the record was deleted
WasDeleted(id) ==
    \E i \in DOMAIN appended[id] : appended[id][i].action = Deleted

\* the documents that hold the email or the nickname of this record,
\* those of deleted records left out
Holders(user) ==
    {j \in Stored :
        /\ ~WasDeleted(j)
        /\ collection[j].data # Nil
        /\ \/ collection[j].data[1].email = user.email
           \/ collection[j].data[1].nickname = user.nickname}

\* C11: the document of a deleted record holds no email and no nickname.
\* A Create with a new id whose email and nickname only the records deleted
\* before had returns nil and inserts the record, however many documents of
\* deleted records there are and whatever is in their outboxes; and a
\* DeleteOne of a record that is there returns nil whatever documents of
\* deleted records there are already.
C11_TombstonesHoldNoKeys ==
    [][\A c \in Clients :
          /\ \A user \in NewUsers :
                (Create(c, user) /\ user.id \notin Stored
                                 /\ Holders(user) = {}) =>
                    /\ call'[c].res = Ok
                    /\ user.id \in DOMAIN collection'
                    /\ collection'[user.id].data = Some(bsonUser(user))
          /\ \A id \in IDs :
                (DeleteOne(c, id) /\ id \in Stored /\ ~WasDeleted(id)) =>
                    /\ call'[c].res = Ok
                    /\ collection'[id].data = Nil
      ]_vars

\* two records with the same email and nickname, one after the other, were
\* created and deleted; both documents are there, with their outboxes
C11_Witness ==
    /\ Stored = IDs
    /\ \A id \in IDs :
          /\ collection[id].data = Nil
          /\ Len(collection[id].events) = 2
          /\ collection[id].events[1].data[1].email = "a@x"
          /\ collection[id].events[1].data[1].nickname = "na"

\* C12: the payload of a new document has version 1 (DefaultVersion, the
\* version the service gives a new record); a successful UpdateOne made
\* with version n finds version n and leaves version n+1; and a step that
\* changes the version of a payload is such an update.
C12_VersionCountsUpdates ==
    [][/\ \A id \in IDs :
             LET old == PayloadIn(collection, id)
                 new == PayloadIn(collection', id)
             IN /\ (id \notin Stored /\ new # Nil)
                      => new[1].version = DefaultVersion
                /\ (old # Nil /\ new # Nil /\ new[1].version # old[1].version)
                      => /\ new[1].version = old[1].version + 1
                         /\ \E c \in Clients :
                               /\ UpdateOneWrite(c)
                               /\ call[c].id = id
                               /\ call[c].version = old[1].version
                               /\ call'[c].res = Ok
       /\ \A c \in Clients :
             (UpdateOneWrite(c) /\ call'[c].res = Ok) =>
                 /\ PayloadIn(collection, call[c].id)[1].version
                       = call[c].version
                 /\ PayloadIn(collection', call[c].id)[1].version
                       = call[c].version + 1
      ]_vars

\* a record was created and updated twice: it has version 3, and the
\* entries appended carry the versions 1, 2 and 3
C12_Witness ==
    \E id \in Stored :
        /\ Live(id)
        /\ collection[id].data[1].version = DefaultVersion + 2
        /\ Len(appended[id]) = 3
        /\ \A i \in 1 .. 3 : appended[id][i].version = i

\* C13: a successful UpdateOne leaves the id, the email, the nickname and
\* the created-at of the stored record as they were, whatever the update
\* carries in them.
C13_UpdateKeepsIdentityFields ==
    [][\A c \in Clients :
          (UpdateOneWrite(c) /\ call'[c].res = Ok) =>
              LET old == PayloadIn(collection, call[c].id)[1]
                  new == PayloadIn(collection', call[c].id)[1]
              IN /\ new.id = old.id
                 /\ new.email = old.email
                 /\ new.nickname = old.nickname
                 /\ new.createdAt = old.createdAt
      ]_vars

\* the Deleted entries appended to the outbox of id
DeletedEntries(id) ==
    {i \in DOMAIN appended[id] : appended[id][i].action = Deleted}

\* C14: a DeleteOne of a record that is there returns nil, sets the payload
\* to null and appends one entry: Pending, Deleted, with null data and the
\* largest version.  A DeleteOne of an id that has no document or whose
\* record was deleted returns NotFound and changes nothing.  So no outbox
\* ever gets a second Deleted entry.
C14_DeleteOnce ==
    [][/\ \A c \in Clients : \A id \in IDs :
             DeleteOne(c, id) =>
                 IF id \in Stored /\ collection[id].data # Nil
                 THEN /\ call'[c].res = Ok
                      /\ collection' = [collection EXCEPT ![id] =
                            [data |-> Nil,
                             events |-> Append(@.events,
                                [id |-> id, state |-> Pending,
                                 action |-> Deleted, version |-> MaxInt64,
                                 updatedAt |-> now, data |-> Nil])]]
                      /\ Cardinality(DeletedEntries(id)') = 1
                 ELSE /\ call'[c].res = ErrNotFound
                      /\ UNCHANGED storeVars
       /\ \A id \in IDs : Cardinality(DeletedEntries(id)') <= 1
      ]_vars

\* both records are there, one was deleted, and a second delete (of the
\* deleted one: no id is without a document) returned NotFound
C14_Witness ==
    /\ Stored = IDs
    /\ \E id \in IDs :
          /\ collection[id].data = Nil
          /\ Cardinality(DeletedEntries(id)) = 1
          /\ \A j \in IDs \ {id} : Live(j)
    /\ call["c1"].op = "DeleteOne"
    /\ call["c1"].res = ErrNotFound

(***************************************************************************)
(* C15.  ReadOne.                                                          *)
(***************************************************************************)
\* what ReadOne is to return in this state: the payload of a document that
\* exists and whose payload is not null, NotFound otherwise
StoredPayload(id) ==
    IF id \in Stored /\ collection[id].data # Nil
    THEN [err |-> Ok, user |-> collection[id].data]
    ELSE [err |-> ErrNotFound, user |-> Nil]

\* C15 (as amended): ReadOne(id) returns the stored payload if and only if
\* the document exists and its payload is not null, and NotFound otherwise;
\* immediately after a successful Create, ReadOne of the id returns the
\* record created, equal in every field except that created-at and
\* updated-at are cut to the millisecond.
C15_ReadOneReturnsStoredPayload ==
    [][/\ \A c \in Clients : \A id \in IDs :
             ReadOneCall(c, id) =>
                 /\ call'[c].res = StoredPayload(id).err
                 /\ call'[c].rec = StoredPayload(id).user
       /\ \A c \in Clients : \A user \in NewUsers :
             (Create(c, user) /\ call'[c].res = Ok) =>
                 ReadOne(user.id)' =
                    [err |-> Ok, user |-> Some(bsonUser(user))]
      ]_vars

\* a caller read a record whose created-at is not the one it was created
\* with, and the other caller was told of a deleted record that it is not
\* found
C15_Witness ==
    /\ call["c1"].op = "ReadOne"
    /\ call["c1"].res = Ok
    /\ call["c1"].rec = collection[call["c1"].id].data
    /\ \E user \in NewUsers :
          /\ user.id = call["c1"].id
          /\ call["c1"].rec[1].createdAt # user.createdAt
    /\ call["c2"].op = "ReadOne"
    /\ call["c2"].res = ErrNotFound
    /\ call["c2"].id \in Stored

\* C15 (as stated): ReadOne(id) returns the stored payload if and only if
\* the document exists and its payload is not null, and NotFound otherwise;
\* the record read immediately after a successful Create is equal field by
\* field to the one created.
C15_ReadOneEqualsCreated ==
    [][/\ \A c \in Clients : \A id \in IDs :
             ReadOneCall(c, id) =>
                 /\ call'[c].res = StoredPayload(id).err
                 /\ call'[c].rec = StoredPayload(id).user
       /\ \A c \in Clients : \A user \in NewUsers :
             (Create(c, user) /\ call'[c].res = Ok) =>
                 ReadOne(user.id)' = [err |-> Ok, user |-> Some(user)]
      ]_vars

(***************************************************************************)
(* C16.  The lifecycle of an identifier.                                   *)
(***************************************************************************)
Lifecycle(coll, id) ==
    IF id \notin DOMAIN coll THEN "Absent"
    ELSE IF coll[id].data # Nil THEN "Live"
    ELSE "Tombstoned"

\* C16: an identifier goes only from Absent to Live (by Create), from Live
\* to Live (its payload changed by Update only) and from Live to Tombstoned
\* (by Delete); a tombstoned document's payload never becomes non-null
\* again; an Update of an id that is absent or tombstoned when it is called
\* returns NotFound, and no Update creates or changes a document of an id
\* that is absent or tombstoned.
C16_Lifecycle ==
    [][/\ \A id \in IDs :
             LET from == Lifecycle(collection, id)
                 to   == Lifecycle(collection', id)
             IN  /\ from = "Absent" =>
                       \/ to = "Absent"
                       \/ /\ to = "Live"
                          /\ \E c \in Clients, user \in NewUsers :
                                user.id = id /\ Create(c, user)
                 /\ from = "Live" =>
                       \/ /\ to = "Live"
                          /\ \/ collection'[id].data = collection[id].data
                             \/ \E c \in Clients :
                                   call[c].id = id /\ UpdateOneWrite(c)
                       \/ /\ to = "Tombstoned"
                          /\ \E c \in Clients : DeleteOne(c, id)
                 /\ from = "Tombstoned" => to = "Tombstoned"
       /\ \A c \in Clients : \A update \in Updates :
             (UpdateOneRead(c, update)
                 /\ Lifecycle(collection, update.id) # "Live") =>
                    /\ call'[c].pc = "done"
                    /\ call'[c].res = ErrNotFound
                    /\ UNCHANGED storeVars
       /\ \A c \in Clients :
             (UpdateOneWrite(c)
                 /\ Lifecycle(collection, call[c].id) # "Live") =>
                    /\ call'[c].res # Ok
                    /\ UNCHANGED storeVars
      ]_vars

\* one record was created and deleted, and an Update of it returned
\* NotFound
C16_Witness ==
    /\ \E id \in IDs :
          /\ Lifecycle(collection, id) = "Tombstoned"
          /\ call["c1"].op = "UpdateOne"
          /\ call["c1"].id = id
          /\ call["c1"].res = ErrNotFound

(***************************************************************************)
(* C17.  Cancellation closes the stream.                                   *)
(***************************************************************************)
\* C17: once the context given to Store.Events is cancelled, the channel is
\* eventually closed and the goroutine has ended for good, wherever the
\* goroutine was: claiming, offering a result that nobody receives, or
\* waiting in waitWithJitter.
C17_CancelClosesStream ==
    cancelled["p1"] ~> [](evPc["p1"] = "closed")

\* the stream was closed while the entry it had claimed last was still
\* leased: a claimed entry was on offer or delivered when the context was
\* cancelled
C17_Witness ==
    /\ cancelled["p1"]
    /\ evPc["p1"] = "closed"
    /\ HasHead("u1")
    /\ HeadOf("u1").state = Processing

(***************************************************************************)
(* C18.  One outcome on the monitor for each result received.              *)
(***************************************************************************)
\* this step records one outcome, a success or a failure, and no other (of
\* a window that is followed)
OneOutcome(ok) ==
    monitor.eventCount < MaxEvents =>
        /\ monitor'.eventCount = monitor.eventCount + 1
        /\ recorded'.ok = recorded.ok + (IF ok THEN 1 ELSE 0)
        /\ recorded'.failed = recorded.failed + (IF ok THEN 0 ELSE 1)

\* a publish task ends
TaskEnds(t) ==
    \/ publishSendError(t)
    \/ publishDoneError(t)
    \/ publishProcessEvent(t)
    \/ publishProcessEventError(t)

\* C18: the pump records one failure when it receives a result carrying an
\* error and nothing when it receives an event, for which it starts one
\* task; a task records nothing until it ends and one outcome when it
\* ends: a success if it ends after SendJSON, Done and ProcessEvent all
\* returned without error, a failure if it ends at the first of them that
\* returned an error; nothing else records an outcome.
C18_OneOutcomePerResult ==
    [][/\ \A s \in Subs :
             PublishChanges(s) =>
                 IF evResult[s].err = Ok
                 THEN /\ UNCHANGED monitorVars
                      /\ \E t \in tasks' \ tasks :
                            /\ tasks' = tasks \cup {t}
                            /\ t.pc = "send"
                 ELSE /\ OneOutcome(FALSE)
                      /\ UNCHANGED tasks
       /\ \A t \in tasks :
             /\ (publishSend(t) \/ publishDone(t)) => UNCHANGED monitorVars
             /\ publishSendError(t) => OneOutcome(FALSE)
             /\ publishDoneError(t) => OneOutcome(FALSE)
             /\ publishProcessEventError(t) => OneOutcome(FALSE)
             /\ publishProcessEvent(t) => (t.pc = "process" /\ OneOutcome(TRUE))
       /\ (monitor' # monitor /\ monitor'.eventCount # 0) =>
             \/ \E s \in Subs : PublishChanges(s) /\ evResult[s].err # Ok
             \/ \E t \in tasks : TaskEnds(t)
      ]_vars

\* in one window an error result was received and recorded as a failure,
\* one task ended in a success and one in a failure
C18_Witness ==
    /\ monitor.eventCount = 3
    /\ recorded.ok = 1
    /\ recorded.failed = 2
    /\ tasks = {}
    /\ \E k \in sent : ~InOutbox(k[1], k[2])

(***************************************************************************)
(* C20.  The success rate of a window.                                     *)
(***************************************************************************)
\* C20: after k recordEventResult(true) and m recordEventResult(false)
\* since the last reset, in whatever order the pump made them,
\* CheckEventSuccessRateAndReset returns k/(k+m), the arithmetic being
\* exact, if k+m > 0 and 1 if k+m = 0, and leaves eventCount and
\* successRate at 0; before it, eventCount is k+m.
C20_RateOfWindow ==
    [][/\ monitor'.eventCount <= MaxEvents =>
             monitor'.eventCount = recorded'.ok + recorded'.failed
       /\ (CheckEventSuccessRateAndReset /\ monitor.eventCount <= MaxEvents) =>
             /\ recorded'.rate =
                   IF recorded.ok + recorded.failed = 0
                   THEN Some(<<1, 1>>)
                   ELSE Some(Rat(recorded.ok, recorded.ok + recorded.failed))
             /\ monitor'.eventCount = 0
             /\ monitor'.successRate = <<0, 1>>
             /\ recorded'.ok = 0
             /\ recorded'.failed = 0
      ]_vars

\* the monitor was read and reset after two successes and one failure
C20_Witness ==
    /\ recorded.rate = Some(<<2, 3>>)
    /\ monitor = NewMonitor
    /\ recorded.ok = 0
    /\ recorded.failed = 0

(***************************************************************************)
(* C19.  The deadline of a publish task.                                   *)
(***************************************************************************)
\* u is, after the step, the task that t was before it
Follows(t, u) ==
    IF \E e \in tasks : TaskEnds(e)
    THEN \E e \in tasks \ {t} :
            /\ TaskEnds(e)
            /\ u.slot = IF t.slot > e.slot THEN t.slot - 1 ELSE t.slot
    ELSE u.slot = t.slot

\* C19: a publish task gets one deadline, retryInterval after its start,
\* that no step of the chain moves: its context is not done at the start
\* unless the root is cancelled, and becomes done only as time passes or
\* as the root is cancelled; when it is done, the wait for the confirmation
\* and the call of ProcessEvent can return with an error, and ProcessEvent
\* does not succeed.
C19_OneDeadlineForTheChain ==
    [][/\ \A s \in Subs : \A t \in tasks' \ tasks :
             PublishChanges(s) =>
                 /\ t.deadline = now + retryTimeout
                 /\ ~cancelled[s] => ~ctxDone(t)
       /\ \A t \in tasks : \A u \in tasks' :
             Follows(t, u) =>
                 /\ u.deadline # t.deadline =>
                       (Tick /\ u.deadline = t.deadline - 1)
                 /\ (~ctxDone(t) /\ ctxDone(u)') =>
                       (Tick \/ Cancel(t.sub))
       /\ \A t \in tasks :
             /\ publishProcessEvent(t) => ~ctxDone(t)
             /\ (ctxDone(t) /\ t.pc = "done") => ENABLED publishDoneError(t)
             /\ (ctxDone(t) /\ t.pc = "process") =>
                   /\ ENABLED publishProcessEventError(t)
                   /\ ~ENABLED publishProcessEvent(t)
      ]_vars

\* a task has its confirmation and is about to call ProcessEvent when its
\* deadline has passed, the root context not cancelled
C19_Witness ==
    \E t \in tasks :
        /\ t.pc = "process"
        /\ ~cancelled[t.sub]
        /\ now >= t.deadline

(***************************************************************************)
(* C21.  The verdict of the health check.                                  *)
(***************************************************************************)
\* a window that is empty keeps nothing of the windows before it: the rate
\* after its first outcome is that outcome
Consumed(m) ==
    /\ m.eventCount = 0
    /\ recordEventResult(m, TRUE).successRate = Rat(1, 1)
    /\ recordEventResult(m, FALSE).successRate = Rat(0, 1)

\* C21: Monitor.Check returns no error iff the rate it read with
\* CheckEventSuccessRateAndReset is at least 0.9.  The window it read
\* holds the outcomes recorded since the last reset and no other, and the
\* check leaves it empty, so that nothing of it enters the next verdict.
C21_HealthyIffRateAtLeastMinimum ==
    [][\A c \in Clients :
          (Check(c) /\ monitor.eventCount <= MaxEvents) =>
              /\ recorded'.rate =
                    IF monitor.eventCount = 0 THEN Some(Rat(1, 1))
                    ELSE Some(monitor.successRate)
              /\ call'[c].res = Ok <=>
                    10 * recorded'.rate[1][1] >= 9 * recorded'.rate[1][2]
              /\ call'[c].res \in {Ok, ErrUnhealthy}
              /\ monitor.eventCount = recorded.ok + recorded.failed
              /\ Consumed(monitor')
              /\ recorded'.ok = 0
              /\ recorded'.failed = 0
      ]_vars

\* a check found a window of nine successes and one failure and reported
\* healthy
C21_Witness ==
    /\ call["c2"].op = "Check"
    /\ call["c2"].res = Ok
    /\ recorded.rate = Some(<<9, 10>>)
    /\ monitor.eventCount = 0

(***************************************************************************)
(* C30.  The claim step.                                                   *)
(***************************************************************************)
\* C30: a claim step of Store.Events changes one document and in it the
\* head entry alone, which becomes Processing with the current time; the
\* document is one whose head could be claimed and, of those, one whose
\* head was updated the longest ago; the entry yielded is the head as it
\* was before the step.
C30_ClaimsOldestHead ==
    [][\A s \in Subs :
          EventsClaim(s) =>
              \E id \in Stored :
                  /\ MatchesNextEvent(id)
                  /\ \A j \in Stored :
                        MatchesNextEvent(j) =>
                            HeadOf(id).updatedAt <= HeadOf(j).updatedAt
                  /\ DOMAIN collection' = Stored
                  /\ \A j \in Stored \ {id} : collection'[j] = collection[j]
                  /\ collection'[id].data = collection[id].data
                  /\ Tail(collection'[id].events) = Tail(collection[id].events)
                  /\ Head(collection'[id].events) =
                        [HeadOf(id) EXCEPT !.state = Processing,
                                           !.updatedAt = now]
                  /\ evResult'[s] = [err |-> Ok, event |-> Some(HeadOf(id))]
      ]_vars

\* two documents had a Pending head, and the claim took the one updated
\* longer ago: it is Processing and stamped with the current time, the
\* entry on offer carries the state and the time it had before, and the
\* other head is still Pending
C30_Witness ==
    /\ evPc["p1"] = "yield"
    /\ evResult["p1"].err = Ok
    /\ \E id \in Stored : \E j \in Stored \ {id} :
          LET e == evResult["p1"].event[1] IN
          /\ e.id = id
          /\ e.state = Pending
          /\ HasHead(id)
          /\ HeadOf(id).state = Processing
          /\ HeadOf(id).updatedAt = now
          /\ HasHead(j)
          /\ HeadOf(j).state = Pending
          /\ e.updatedAt < HeadOf(j).updatedAt

(***************************************************************************)
(* C29.  The wait between two claim attempts.                              *)
(***************************************************************************)
\* the goroutine of Events makes the claim attempt of an iteration
Attempt(s) ==
    \/ EventsClaim(s)
    \/ EventsNoDocuments(s)
    \/ EventsError(s)

\* C29: whatever the outcome of a claim attempt (an entry, an error, no
\* entry), the goroutine of Events is not at its next attempt when the
\* attempt returns, and it comes to an attempt only from waitWithJitter:
\* between two attempts it waits.
C29_WaitsBeforeEveryAttempt ==
    /\ [](\A s \in Subs : ~ENABLED (Attempt(s) /\ evPc'[s] = "claim"))
    /\ [][\A s \in Subs :
             (evPc[s] # "claim" /\ evPc'[s] = "claim") => waitWithJitter(s)
         ]_vars

(***************************************************************************)
(* C22.  The store is called only for a request that passed validation.    *)
(***************************************************************************)
\* the requests of the model that break a rule of validation: a first name
\* with a rune that is not allowed, a password of five runes, a
\* confirmation that differs, a country that is none, an id that is no uuid
BrokenNewUser(n) ==
    n.firstName = "<f>" \/ n.password = "short" \/ n.confirmPassword # n.password

BrokenUpdate(u) ==
    \/ u.id = "not a uuid"
    \/ u.country = "??"
    \/ u.password = "short"
    \/ u.confirmPassword # u.password

BrokenRef(r) == r.id = "not a uuid"

\* the request c is running is at a call of the store
InStore(req) == req.pc \in {"read", "store"}

\* C22: a Create, Update or Delete whose input breaks a rule of validation
\* returns without a call of the store and leaves the collection as it
\* is; it returns Invalid (for Create: unless the id generator or the
\* hasher, which come first, failed).  Invalid is returned for no other
\* input.  A call of the store is made only by a request that is at one,
\* and a request gets there only with an input that passed validation
\* and, for Create, with the id generated and the password hashed.
C22_StoreOnlyAfterValidation ==
    [][\A c \in Clients :
          /\ (CanRequest(c) /\ request'[c] # request[c]) =>
                /\ \A n \in NewUserInputs :
                      /\ (BrokenNewUser(n) /\ ServiceCreate(c, n)) =>
                            /\ request'[c].pc = "done"
                            /\ request'[c].res \in {UserErrInvalid, ErrWrapped}
                            /\ UNCHANGED <<storeVars, nOps, call>>
                      /\ (request'[c].res = UserErrInvalid
                             /\ ServiceCreate(c, n)) => BrokenNewUser(n)
                /\ \A u \in UpdateInputs :
                      /\ (BrokenUpdate(u) /\ ServiceUpdate(c, u)) =>
                            /\ request'[c] =
                                  Done("Update", FALSE, UserErrInvalid, Nil)
                            /\ UNCHANGED <<storeVars, nOps, call>>
                      /\ (request'[c].res = UserErrInvalid
                             /\ ServiceUpdate(c, u)) => BrokenUpdate(u)
                /\ \A r \in RefInputs :
                      /\ (BrokenRef(r) /\ ServiceDelete(c, r)) =>
                            /\ request'[c] =
                                  Done("Delete", FALSE, UserErrInvalid, Nil)
                            /\ UNCHANGED <<storeVars, nOps, call>>
                      /\ (request'[c].res = UserErrInvalid
                             /\ ServiceDelete(c, r)) => BrokenRef(r)
          /\ (nOps' # nOps /\ call'[c] # call[c]) => InStore(request[c])
          /\ (collection' # collection /\ call'[c] # call[c]) =>
                InStore(request[c])
          /\ InStore(request'[c]) =>
                LET input == request'[c].input[1] IN
                CASE request'[c].op = "Create" ->
                        /\ ~BrokenNewUser(input)
                        /\ request'[c].hashed
                        /\ request'[c].rec[1].id \in IDs
                        /\ request'[c].rec[1].passwordHash =
                              Hash(input.password)
                  [] request'[c].op = "Update" -> ~BrokenUpdate(input)
                  [] request'[c].op = "Delete" -> ~BrokenRef(input)
      ]_vars

\* a Create with an input that breaks a rule has returned Invalid, the
\* hasher called, while the collection holds the record of another request
\* only
C22_Witness ==
    /\ request["c1"] = Done("Create", TRUE, UserErrInvalid, Nil)
    /\ call["c1"] = Idle
    /\ request["c2"].op = "Create"
    /\ request["c2"].res = Ok
    /\ Cardinality(Stored) = 1

(***************************************************************************)
(* C23.  Service.Update of a record that is gone or of a stale version.    *)
(***************************************************************************)
\* C23: the ReadOne of Service.Update returns ErrNotFound iff the record is
\* absent or deleted, and else the payload stored; after ErrNotFound the
\* request returns NotFound, and after a record whose version is not the
\* update's it returns InvalidVersion; a request that returns either at
\* this point has written nothing and makes no call of store.UpdateOne,
\* which is called only with the version that was read.
C23_UpdateOfMissingOrStale ==
    [][\A c \in Clients :
          /\ ServiceUpdateReadOne(c) =>
                LET id == request[c].input[1].id IN
                /\ call'[c].res = ErrNotFound <=> ~Live(id)
                /\ Live(id) => (call'[c].res = Ok /\
                                call'[c].rec = collection[id].data)
                /\ UNCHANGED storeVars
          /\ ServiceUpdateCompose(c) =>
                /\ call[c].res = ErrNotFound =>
                      request'[c] = Done("Update", FALSE, UserErrNotFound, Nil)
                /\ (call[c].res = Ok /\
                    call[c].rec[1].version # request[c].input[1].version) =>
                      request'[c] =
                          Done("Update", FALSE, UserErrInvalidVersion, Nil)
                /\ request'[c].res \in {UserErrNotFound, UserErrInvalidVersion} =>
                      /\ request'[c].pc = "done"
                      /\ UNCHANGED <<storeVars, call, nOps>>
          /\ (call'[c] # call[c] /\ call'[c].op = "UpdateOne") =>
                /\ request[c].op = "Update"
                /\ request[c].pc = "store"
                /\ request[c].rec[1].version = request[c].input[1].version
      ]_vars

\* one Update found no record and returned NotFound, another read the
\* record at a version that is not its own and returned InvalidVersion
C23_Witness ==
    /\ request["c1"] = Done("Update", FALSE, UserErrNotFound, Nil)
    /\ call["c1"].op = "ReadOne"
    /\ call["c1"].res = ErrNotFound
    /\ request["c2"] = Done("Update", FALSE, UserErrInvalidVersion, Nil)
    /\ call["c2"].op = "ReadOne"
    /\ call["c2"].res = Ok
    /\ Live("u1")

(***************************************************************************)
(* C24.  The store errors of Service.Update.                               *)
(***************************************************************************)
\* the error Service.Update returns for an error of the store
UserErrorOf(err) ==
    CASE err = ErrNotFound -> UserErrNotFound
      [] err = ErrInvalidVersion -> UserErrInvalidVersion
      [] OTHER -> ErrWrapped

\* C24: Service.Update returns NotFound for the store's ErrNotFound,
\* InvalidVersion for its ErrInvalidVersion and a wrapped error for every
\* other error of the store, whether store.ReadOne returned it or
\* store.UpdateOne: after such an error the request returns at once, and
\* with the wrapped error.
C24_StoreErrorsOfUpdate ==
    [][\A c \in Clients :
          /\ (ServiceUpdateCompose(c) /\ call[c].res # Ok) =>
                request'[c] =
                    Done("Update", FALSE, UserErrorOf(call[c].res), Nil)
          /\ (ServiceUpdateReturn(c) /\ call[c].res # Ok) =>
                /\ request'[c].pc = "done"
                /\ request'[c].res = UserErrorOf(call[c].res)
      ]_vars

(***************************************************************************)
(* C28.  The password hash under Service.Update.                           *)
(***************************************************************************)
\* the password hash of the record stored under id
StoredHash(coll, id) == coll[id].data[1].passwordHash

\* C28: a Service.Update whose Password is empty does not call the hasher,
\* whatever it returns, composes its record with the hash it read, and
\* when its write succeeds the hash stored is the one that was stored
\* before; one whose Password is not empty calls the hasher once the
\* version was found right, composes its record with the hash of the new
\* password, and when its write succeeds that hash is stored.
C28_HashKeptUnlessPasswordSet ==
    [][\A c \in Clients :
          /\ ServiceUpdateCompose(c) =>
                LET update == request[c].input[1] IN
                /\ update.password = "" => ~request'[c].hashed
                /\ (call[c].res = Ok /\ request'[c].pc = "store") =>
                      /\ request'[c].hashed <=> update.password # ""
                      /\ request'[c].rec[1].passwordHash =
                            IF update.password = ""
                            THEN call[c].rec[1].passwordHash
                            ELSE Hash(update.password)
          /\ (request[c].op = "Update" /\ request[c].pc = "store") =>
                LET update == request[c].input[1] IN
                /\ request'[c].hashed <=> update.password # ""
                /\ (UpdateOneWrite(c) /\ call'[c].res = Ok) =>
                      StoredHash(collection', update.id) =
                          IF update.password = ""
                          THEN StoredHash(collection, update.id)
                          ELSE Hash(update.password)
      ]_vars

\* an Update without a password has succeeded: the hasher was not called
\* and the record, now of version 2, has the hash it was created with
C28_Witness ==
    /\ request["c1"].op = "Update"
    /\ request["c1"].res = Ok
    /\ ~request["c1"].hashed
    /\ request["c1"].user # Nil
    /\ request["c1"].user[1].version = 2
    /\ Live("u1")
    /\ collection["u1"].data[1].version = 2
    /\ StoredHash(collection, "u1") = "hash(password-01)"


(***************************************************************************)
(* C26: FindMany(page p >= 1, length L) returns the live records that      *)
(* match the filter (created-at >= created-after and, if a country is      *)
(* given, that country) at the positions L*(p-1)+1 .. L*p of the ascending *)
(* order of created-at, and as total the number of all matching live       *)
(* records; records deleted are neither returned nor counted.              *)
(***************************************************************************)
Matching(q) ==
    {id \in Stored :
        /\ collection[id].data # Nil
        /\ collection[id].data[1].createdAt >= q.createdAfter
        /\ q.country # "" => collection[id].data[1].country = q.country}

Ascending(q) ==
    LET n == Cardinality(Matching(q))
    IN  {[i \in 1 .. n |-> collection[f[i]].data[1]] :
            f \in {g \in [1 .. n -> Matching(q)] :
                     /\ \A i, j \in 1 .. n : i # j => g[i] # g[j]
                     /\ \A i, j \in 1 .. n :
                           i < j => collection[g[i]].data[1].createdAt <=
                                    collection[g[j]].data[1].createdAt}}

PageAt(docs, q) ==
    SubSeq(docs, q.length * (q.page - 1) + 1,
           IF q.length * q.page > Len(docs) THEN Len(docs)
           ELSE q.length * q.page)

\* stated for the queries whose time is a whole number of milliseconds,
\* the unit of the times stored
C26_FindManyReturnsPage ==
    [][\A c \in Clients, q \in Queries :
          bsonTime(q.createdAfter) = q.createdAfter =>
              /\ findItems(c, q) =>
                    \E docs \in Ascending(q) :
                        call'[c].rec[1].items = Some(PageAt(docs, q))
              /\ findTotal(c, q) =>
                    call'[c].rec[1].total = Some(Cardinality(Matching(q)))
      ]_vars

(***************************************************************************)
(* C27: Service.Find queries the store with page 1 for page 0, length 25   *)
(* for length 0 and the zero time for a created-after that is empty or     *)
(* does not parse, and with every other value of the query as it is given. *)
(***************************************************************************)
QueryOfStore(query) ==
    [createdAfter |-> IF query.createdAfter = "0001-01-01T00:00:00.001Z" THEN 2
                      ELSE IF query.createdAfter = "0001-01-01T00:00:00.0015Z"
                      THEN 3
                      ELSE 0,
     country |-> query.country,
     length |-> IF query.length = 0 THEN 25 ELSE query.length,
     page |-> IF query.page = 0 THEN 1 ELSE query.page]

C27_FindQueriesStoreWithDefaults ==
    [][\A c \in Clients :
          /\ (CanRequest(c) /\ request'[c] # request[c]) =>
                \A query \in ServiceQueries :
                    ServiceFind(c, query) =>
                        request'[c].rec = Some(QueryOfStore(query))
          /\ (InFindMany(c) /\ call'[c] # call[c] /\ call'[c].res \in {"none", Ok}) =>
                /\ call'[c].op = "FindMany"
                /\ call'[c].rec[1].query = request[c].rec[1]
                /\ request'[c] = request[c]
      ]_vars

\* Find of a query with no page, no length and a time that does not parse
\* has counted in the store the one record there is, with page 1, length 25
\* and the zero time
C27_Witness ==
    /\ request["c2"].op = "Find"
    /\ request["c2"].pc = "store"
    /\ request["c2"].input[1].createdAfter = "yesterday"
    /\ request["c2"].input[1].country = ""
    /\ Finding("c2")
    /\ call["c2"].rec[1].query =
          [createdAfter |-> 0, country |-> "", length |-> 25, page |-> 1]
    /\ call["c2"].rec[1].total = Some(1)

(***************************************************************************)
(* C25: the content of every event published and of every result of Find   *)
(* is independent of the password hash stored: neither holds the hash, and *)
(* each is what it would be were the hash of the records any other.        *)
(***************************************************************************)
WithHash(uu, hash) == [uu EXCEPT !.passwordHash = hash]

EntryWithHash(ue, hash) ==
    IF ue.data = Nil THEN ue
    ELSE [ue EXCEPT !.data = Some(WithHash(ue.data[1], hash))]

PageWithHash(page, hash) ==
    [page EXCEPT !.items =
        Some([i \in 1 .. Len(page.items[1]) |->
                 WithHash(page.items[1][i], hash)])]

\* the user handed out has no field of the hash and no hash in a field
NoHash(su) ==
    /\ "passwordHash" \notin DOMAIN su
    /\ \A field \in DOMAIN su \ {"version"} : su[field] \notin Hashes

C25_Sanitized ==
    /\ [](\A t \in tasks : t.event.data # Nil => NoHash(t.event.data[1]))
    /\ [](\A c \in Clients :
             (request[c].op = "Find" /\ request[c].user # Nil) =>
                 \A i \in DOMAIN request[c].user[1].items :
                     NoHash(request[c].user[1].items[i]))
    /\ [][/\ \A s \in Subs :
                (/\ evPc[s] = "yield"
                 /\ evPc'[s] = "wait"
                 /\ evResult[s].err = Ok) =>
                    \A t \in tasks' \ tasks, hash \in Hashes :
                        t.event =
                            Published(EntryWithHash(evResult[s].event[1], hash))
          /\ \A c \in Clients :
                (/\ CallReturned(c, "Find", "store")
                 /\ request'[c].pc = "done"
                 /\ request'[c].res = Ok) =>
                    \A hash \in Hashes :
                        request'[c].user =
                            Some(sanitizedPage(PageWithHash(call[c].rec[1], hash)))
        ]_vars

\* the record stored has the hash h2, its event Created is being
\* published with the data of the user, and Find has returned two users
C25_Witness ==
    /\ Live("u1")
    /\ collection["u1"].data[1].passwordHash = "h2"
    /\ \E t \in tasks :
          /\ t.event.id = "u1"
          /\ t.event.data # Nil
          /\ t.event.data[1].nickname = "na"
    /\ request["c2"].op = "Find"
    /\ request["c2"].res = Ok
    /\ Len(request["c2"].user[1].items) = 2
    /\ request["c2"].user[1].items[1].nickname = "na"

(***************************************************************************)
(* C33.  The snapshot an entry carries.                                    *)
(***************************************************************************)
LastEntry(coll, id) == coll[id].events[Len(coll[id].events)]

LastAppended(hist, id) == hist[id][Len(hist[id])]

\* C33: the entry that a Create or an UpdateOne appends carries as data the
\* payload that the same write stores and as version the version of that
\* payload; and the last entry in the outbox of a live document has as data
\* the payload of the document.
C33_EntryCarriesStoredPayload ==
    /\ [](\A id \in Stored :
             (Live(id) /\ HasHead(id)) =>
                 LastEntry(collection, id).data = collection[id].data)
    /\ [][\A id \in IDs :
             (/\ Len(appended'[id]) > Len(appended[id])
              /\ LastAppended(appended', id).action \in {Created, Updated}) =>
                 /\ LastEntry(collection', id).action =
                       LastAppended(appended', id).action
                 /\ collection'[id].data # Nil
                 /\ LastEntry(collection', id).data = collection'[id].data
                 /\ LastEntry(collection', id).version =
                       collection'[id].data[1].version
         ]_vars

\* the record was created and updated: its outbox ends with the entry
\* Updated of version 2, whose data is the payload written by the update
C33_Witness ==
    /\ Live("u1")
    /\ Len(collection["u1"].events) = 2
    /\ LastEntry(collection, "u1").action = Updated
    /\ LastEntry(collection, "u1").version = 2
    /\ LastEntry(collection, "u1").data # Nil
    /\ LastEntry(collection, "u1").data[1].firstName = "f2"
    /\ collection["u1"].data[1].firstName = "f2"

(***************************************************************************)
(* C36.  Only the first entry of an outbox is ever Processing.             *)
(***************************************************************************)
\* C36: every entry of an outbox but the first is Pending, and the entry
\* that a drop makes the first is Pending after the drop.
C36_OnlyHeadProcessing ==
    /\ [](\A id \in Stored :
             \A i \in 2 .. Len(collection[id].events) :
                 collection[id].events[i].state = Pending)
    /\ [][\A id \in Stored :
             (/\ collection[id].events # <<>>
              /\ collection'[id].events = Tail(collection[id].events)
              /\ collection'[id].events # <<>>) =>
                 Head(collection'[id].events).state = Pending
         ]_vars

\* the entry Created was claimed while the entry Updated was behind it,
\* and dropped: the entry Updated is the first and is Pending
C36_Witness ==
    /\ "u1" \in Stored
    /\ Len(appended["u1"]) = 2
    /\ Len(collection["u1"].events) = 1
    /\ HeadOf("u1").action = Updated
    /\ HeadOf("u1").state = Pending

(***************************************************************************)
(* C37.  UpdateOne that races with DeleteOne.                              *)
(***************************************************************************)
\* C37: an UpdateOne whose read or whose write comes after the write of a
\* DeleteOne of the record returns ErrNotFound or ErrInvalidVersion and
\* writes nothing; a Deleted entry is the last entry of its outbox and the
\* last that was ever appended to it.
C37_NoUpdateAfterDelete ==
    /\ [](\A id \in IDs :
             /\ \A i \in 1 .. Len(appended[id]) :
                   appended[id][i].action = Deleted => i = Len(appended[id])
             /\ id \in Stored =>
                   \A i \in 1 .. Len(collection[id].events) :
                       collection[id].events[i].action = Deleted =>
                           i = Len(collection[id].events))
    /\ [][\A c \in Clients :
             (/\ call'[c] # call[c]
              /\ call'[c].op = "UpdateOne"
              /\ call'[c].pc = "done"
              /\ call'[c].id \in Stored
              /\ collection[call'[c].id].data = Nil) =>
                 /\ call'[c].res =
                       IF call[c].pc = "write" THEN ErrInvalidVersion
                       ELSE ErrNotFound
                 /\ UNCHANGED storeVars
         ]_vars

\* an UpdateOne read the record at version 1, the record was deleted, and
\* the write of the UpdateOne returned ErrInvalidVersion: the outbox holds
\* Created and Deleted
C37_Witness ==
    /\ "u1" \in Stored
    /\ collection["u1"].data = Nil
    /\ appended["u1"] = <<[action |-> Created, version |-> 1],
                          [action |-> Deleted, version |-> MaxInt64]>>
    /\ \E c \in Clients :
          /\ call[c].op = "UpdateOne"
          /\ call[c].pc = "done"
          /\ call[c].id = "u1"
          /\ call[c].version = 1
          /\ call[c].rec # Nil
          /\ call[c].res = ErrInvalidVersion

(***************************************************************************)
(* C38.  The versions of the entries of one outbox.                        *)
(***************************************************************************)
\* C38: the versions of the entries ever appended to one document, and so
\* of the entries in its outbox, increase strictly in the order of
\* appending: Created first, Deleted last; no two entries of one document
\* have one version.
C38_VersionsIncrease ==
    \A id \in IDs :
        /\ \A i, j \in 1 .. Len(appended[id]) :
              i < j =>
                  /\ appended[id][i].version < appended[id][j].version
                  /\ appended[id][j].action # Created
                  /\ appended[id][i].action # Deleted
        /\ id \in Stored =>
              \A i, j \in 1 .. Len(collection[id].events) :
                  i < j => collection[id].events[i].version <
                           collection[id].events[j].version

\* a record was created, updated and deleted, and nothing was dropped
C38_Witness ==
    /\ "u1" \in Stored
    /\ Len(collection["u1"].events) = 3
    /\ appended["u1"] = <<[action |-> Created, version |-> 1],
                          [action |-> Updated, version |-> 2],
                          [action |-> Deleted, version |-> MaxInt64]>>

(***************************************************************************)
(* C32.  The errors of a claim attempt.                                    *)
(***************************************************************************)
\* C32: a claim attempt that finds no entry to claim yields nothing and
\* leaves the goroutine at the next attempt; an attempt leaves the loop
\* only with a result to yield, an entry that could be claimed or an error
\* without an entry; the result is received by the pump, which records a
\* failure for an error, or the stream is closed because its context is
\* cancelled, and never for another reason; after a result was received
\* the goroutine waits and attempts again.
C32_ErrorsAreYielded ==
    /\ [](\A s \in Subs : evPc[s] = "closed" => cancelled[s])
    /\ [](\A s \in Subs : evPc[s] = "wait" => ENABLED waitWithJitter(s))
    /\ [](\A s \in Subs :
             ~ENABLED (/\ EventsNoDocuments(s)
                       /\ \/ evPc'[s] # evPc[s]
                          \/ evResult'[s] # evResult[s]))
    /\ [][\A s \in Subs :
             /\ (evPc[s] = "claim" /\ evPc'[s] # "claim") =>
                   /\ evPc'[s] = "yield"
                   /\ \/ /\ evResult'[s].err = Ok
                         /\ \E id \in Stored :
                               /\ MatchesNextEvent(id)
                               /\ evResult'[s].event = Some(HeadOf(id))
                      \/ /\ evResult'[s].err \notin {Ok, "none"}
                         /\ evResult'[s].event = Nil
                         /\ UNCHANGED storeVars
             /\ (evPc[s] = "yield" /\ evPc'[s] # "yield") =>
                   \/ /\ evPc'[s] = "wait"
                      /\ (evResult[s].err # Ok /\ monitor.eventCount < MaxEvents) =>
                            recorded'.failed = recorded.failed + 1
                   \/ /\ evPc'[s] = "closed"
                      /\ cancelled[s]
             /\ (evPc[s] = "wait" /\ evPc'[s] # "wait") => evPc'[s] = "claim"
         ]_vars

\* the pump has received a result with an error, and the stream, not
\* cancelled, now yields an entry it claimed
C32_Witness ==
    /\ recorded.failed >= 1
    /\ ~cancelled["p1"]
    /\ evPc["p1"] = "yield"
    /\ evResult["p1"].err = Ok
    /\ evResult["p1"].event # Nil

Reported(m) ==
    \E i \in DOMAIN health.collectedResults :
        health.collectedResults[i].name = m

\* C35: the health endpoint runs the checks of all its monitors
\* concurrently, and the status it writes is 200 iff every monitor
\* reported a check without error before the context of the request was
\* done; it is 500 when a monitor reported an error, and when the timeout
\* or the cancellation came before every monitor had reported.
C35_HealthStatus ==
    /\ health.pc = "collect" =>
          \A m \in health.monitors :
              \/ health.routine[m] \in {"check", "select"}
              \/ Reported(m)
              \/ health.ctxDone
    /\ health.pc = "done" =>
          /\ health.status \in {StatusOK, StatusInternalServerError}
          /\ health.status = StatusOK <=>
                \A m \in health.monitors : Reported(m) /\ health.result[m]
          /\ (\E m \in health.monitors : Reported(m) /\ ~health.result[m])
                => health.status = StatusInternalServerError
          /\ health.collectedAtDone < Cardinality(health.monitors)
                => health.status = StatusInternalServerError

\* every check returned without error, and the timeout came when the last
\* monitor had not reported
C35_Witness ==
    /\ health.pc = "done"
    /\ health.monitors = Monitors
    /\ \A m \in Monitors : health.result[m] /\ health.routine[m] = "gone"
    /\ health.collectedAtDone = 2
    /\ health.status = StatusInternalServerError

(***************************************************************************)
(* Properties of the goroutines of Store.FindMany.                         *)
(***************************************************************************)
\* C40: once FindMany has returned, both its helper goroutines end,
\* however it returned: with both results, with the error of a query, or
\* with the error of the context while a helper waits to send its result.
C40_HelpersTerminate ==
    \A h \in Helpers :
        /\ helpers.pc = "returned" ~> helpers.routine[h] = "gone"
        /\ [](helpers.routine[h] = "gone" =>
                \/ h \in helpers.received
                \/ helpers.ctxDone
                \/ helpers.pc = "idle")

\* FindMany returned with the error of the context, the total received,
\* while the helper of the items waits to send its result
C40_Witness ==
    /\ helpers.pc = "returned"
    /\ helpers.err = ErrContext
    /\ helpers.received = {"total"}
    /\ helpers.routine["items"] = "select"

(***************************************************************************)
(* Properties of the mutex of the monitor.                                 *)
(***************************************************************************)
\* the rate of a window: 1.0 of an empty one
RateOf(w) ==
    IF w.ok + w.failed = 0 THEN Rat(1, 1) ELSE Rat(w.ok, w.ok + w.failed)

\* C39: recording an outcome, reading and resetting the rate, and reading
\* the count exclude each other: at most one goroutine is inside one of
\* them; when none is, the count is the number of outcomes recorded since
\* the last reset and the rate is their rate; a reset returns the rate of
\* exactly the outcomes recorded between the reset before and itself and
\* zeroes the count of exactly those; and CheckEventCount returns the
\* number of outcomes recorded since the last reset.
C39_RecordAndResetAtomic ==
    /\ Cardinality({g \in Routines :
                       sections[g].pc \notin {"idle", "returned"}}) <= 1
    /\ eventMtx = Unlocked =>
          /\ monitor.eventCount = recorded.ok + recorded.failed
          /\ monitor.eventCount > 0 => monitor.successRate = RateOf(Window)
    /\ sections[Resetter].pc = "returned" =>
          /\ sections[Resetter].rate = RateOf(sections[Resetter].window)
          /\ sections[Resetter].eventCount =
                sections[Resetter].window.ok + sections[Resetter].window.failed
    /\ sections[Counter].pc = "returned" =>
          sections[Counter].eventCount =
             sections[Counter].window.ok + sections[Counter].window.failed

\* a health check returned the rate 1/2 of a window of two outcomes, the
\* reader of the count returned 1 after it, and a task records the
\* second outcome of the next window
C39_Witness ==
    /\ sections[Resetter].pc = "returned"
    /\ sections[Resetter].window = [ok |-> 1, failed |-> 1]
    /\ sections[Resetter].rate = Rat(1, 2)
    /\ sections[Counter].pc = "returned"
    /\ sections[Counter].eventCount = 1
    /\ eventMtx \in Recorders
    /\ recorded.ok + recorded.failed = 2

(***************************************************************************)
(* Properties of the pump when its root context is cancelled.              *)
(***************************************************************************)
\* C34: the cancellation of the root context leads to PublishChanges
\* having returned and no publish task being left; after the return no
\* task is started; and a task that ends when its root context is
\* cancelled has removed no entry: its ProcessEvent returned the error of
\* the context.
C34_PumpShutsDown ==
    /\ cancelled["p1"] ~> (~publishing["p1"] /\ tasks = {})
    /\ [][~publishing["p1"] =>
              /\ ~publishing'["p1"]
              /\ Cardinality(tasks') <= Cardinality(tasks)]_vars
    /\ [][((\A t \in tasks : cancelled[t.sub])
               /\ Cardinality(tasks') < Cardinality(tasks))
                 => UNCHANGED collection]_vars

\* PublishChanges has returned after the cancellation, and a task started
\* before waits for the confirmation of its send
C34_Witness ==
    /\ cancelled["p1"]
    /\ ~publishing["p1"]
    /\ \E t \in tasks : t.pc = "done" /\ t.sub = "p1"
=============================================================================
